---- MODULE Spec2Model ----
(***************************************************************************)
(* Model of lgio: the BufRead protocol (fill_buf / consume), the derived   *)
(* operation read_exact, and the adapters Take and Chain, over in-memory   *)
(* byte slices and over readers whose fill_buf may fail.                    *)
(*                                                                         *)
(* A reader is a record tree:                                              *)
(*   [kind |-> "slice", name, data, script]      a leaf reader             *)
(*   [kind |-> "take",  reader, limit, last_len] Take<R>                   *)
(*   [kind |-> "chain", left, right, is_right]   Chain<L, R>               *)
(* A leaf is the slice reader &[u8] (data = the bytes not yet consumed).   *)
(* Its script lists the outcomes of its next fill_buf calls: "ok" lets the *)
(* call through to the slice, an error value e makes the call return       *)
(* Err(e). With an empty script the leaf is exactly &[u8].                 *)
(***************************************************************************)
EXTENDS Integers, Sequences, FiniteSets, TLC

\* ---------------------------------------------------------------- bounds
MaxLen == 2        \* longest byte sequence held by a leaf reader
MaxLimit == 3      \* largest limit given to take
MaxScript == 2     \* longest script of fill_buf outcomes of a leaf
MaxDest == 3       \* longest destination given to read_exact
MaxCap == 2        \* largest capacity of a fixed-capacity buffer
MaxWrite == 2      \* longest byte sequence given to one write_all
MaxWritten == 3    \* most bytes a run takes from and gives to one object
MaxCalls == 2      \* most calls of the mapping closure in a run
MaxStdScript == 3  \* longest script of fill_buf outcomes of a std reader
MaxRetries == 3    \* most Interrupted results the wrapped reader gives in one fill_buf

\* Error values of a reader (ReadError) and the mark of a call that succeeds.
Errs == {"e1", "e2"}
NoErr == "ok"

VARIABLES cfg, rd, view, out, eof, last
vars == <<cfg, rd, view, out, eof, last>>

\* ---------------------------------------------------------------- helpers
SeqsUpTo(S, n) == UNION {[1..k -> S] : k \in 0..n}

Take_(s, n) == SubSeq(s, 1, n)
Drop_(s, n) == SubSeq(s, n + 1, Len(s))

\* Result<&[u8], E> of fill_buf together with the reader after the call and
\* the names of the leaf readers whose fill_buf was invoked, in call order.
OkBuf(r, buf, trace) == [r |-> r, ok |-> TRUE, buf |-> buf, err |-> NoErr, trace |-> trace]
ErrBuf(r, e, trace) == [r |-> r, ok |-> FALSE, buf |-> <<>>, err |-> e, trace |-> trace]

\* ---------------------------------------------------------------- &[u8]
\* impl BufRead for &[u8]: fill_buf returns the whole remaining slice.
SliceFillBuf(r) == OkBuf(r, r.data, <<r.name>>)

\* impl BufRead for &[u8]: consume drops the first amount bytes.
SliceConsume(r, amount) == [r EXCEPT !.data = Drop_(r.data, amount)]

\* A reader whose fill_buf may fail: the head of the script decides whether
\* this call returns Err(e) or the contents of the buffer.
LeafFillBuf(r) ==
    IF r.script = <<>> THEN SliceFillBuf(r)
    ELSE LET r2 == [r EXCEPT !.script = Tail(r.script)]
         IN IF Head(r.script) = NoErr THEN SliceFillBuf(r2)
            ELSE ErrBuf(r2, Head(r.script), <<r.name>>)

\* ---------------------------------------------------------------- dispatch
RECURSIVE FillBuf(_)
RECURSIVE Consume(_, _)
RECURSIVE WriteAll(_, _)
RECURSIVE Flush(_)

\* Result<(), E> of write_all and flush together with the writer after the
\* call; bytes_past_end is the field of a BufferOverflow error.
WOk(r) == [r |-> r, ok |-> TRUE, err |-> NoErr, bytes_past_end |-> 0]
WErr(r, e, n) == [r |-> r, ok |-> FALSE, err |-> e, bytes_past_end |-> n]

\* ---------------------------------------------------------------- Take
\* fn min(a: u64, b: usize) -> usize. When the conversion of a to usize
\* fails, a exceeds every usize and b is returned.
min(a, b) == IF a < b THEN a ELSE b

\* Take::new
TakeNew(reader, limit) == [kind |-> "take", reader |-> reader, limit |-> limit, last_len |-> 0]

\* Take::fill_buf that returns the inner slice without truncating it.
TakeFillBuf_NoTruncate(r) ==
    LET f == FillBuf(r.reader)
    IN IF f.ok
       THEN OkBuf([r EXCEPT !.reader = f.r, !.last_len = Len(f.buf)], f.buf, f.trace)
       ELSE ErrBuf([r EXCEPT !.reader = f.r], f.err, f.trace)

\* Take::fill_buf that truncates to one byte more than the budget.
TakeFillBuf_OffByOne(r) ==
    LET f == FillBuf(r.reader)
    IN IF f.ok
       THEN OkBuf([r EXCEPT !.reader = f.r, !.last_len = Len(f.buf)],
                  Take_(f.buf, min(r.limit + 1, Len(f.buf))), f.trace)
       ELSE ErrBuf([r EXCEPT !.reader = f.r], f.err, f.trace)

\* Take::fill_buf that charges a failed inner fill_buf one byte of budget.
TakeFillBuf_ErrSpendsBudget(r) ==
    LET f == FillBuf(r.reader)
    IN IF f.ok
       THEN OkBuf([r EXCEPT !.reader = f.r, !.last_len = Len(f.buf)],
                  Take_(f.buf, min(r.limit, Len(f.buf))), f.trace)
       ELSE ErrBuf([r EXCEPT !.reader = f.r, !.limit = IF r.limit > 0 THEN r.limit - 1 ELSE 0],
                   f.err, f.trace)

\* Take::fill_buf that calls the inner fill_buf once more after an error.
TakeFillBuf_RetriesOnce(r) ==
    LET f1 == FillBuf(r.reader)
        f2 == FillBuf(f1.r)
        f  == IF f1.ok THEN f1 ELSE [f2 EXCEPT !.trace = f1.trace \o f2.trace]
    IN IF f.ok
       THEN OkBuf([r EXCEPT !.reader = f.r, !.last_len = Len(f.buf)],
                  Take_(f.buf, min(r.limit, Len(f.buf))), f.trace)
       ELSE ErrBuf([r EXCEPT !.reader = f.r], f.err, f.trace)

\* Take::fill_buf
TakeFillBuf(r) ==
    LET f == FillBuf(r.reader)
    IN IF f.ok
       THEN OkBuf([r EXCEPT !.reader = f.r, !.last_len = Len(f.buf)],
                  Take_(f.buf, min(r.limit, Len(f.buf))), f.trace)
       ELSE ErrBuf([r EXCEPT !.reader = f.r], f.err, f.trace)

\* Take::consume that forwards the call and keeps its budget.
TakeConsume_KeepsBudget(r, amount) ==
    [r EXCEPT !.reader = Consume(r.reader, amount)]

\* Take::consume that consumes the whole inner slice, the part beyond the
\* budget too.
TakeConsume_ForwardsSlice(r, amount) ==
    [r EXCEPT !.limit = r.limit - amount,
              !.reader = Consume(r.reader, IF amount = 0 THEN 0 ELSE r.last_len)]

\* Take::consume (amount within the last returned slice)
TakeConsume(r, amount) ==
    [r EXCEPT !.limit = r.limit - amount, !.reader = Consume(r.reader, amount)]

\* ---------------------------------------------------------------- Chain
\* Chain::new
ChainNew(left, right) == [kind |-> "chain", left |-> left, right |-> right, is_right |-> FALSE]

\* Chain::fill_buf that asks the left reader again after the switch.
ChainFillBuf_ConsultsLeft(r) ==
    LET f == FillBuf(r.left)
    IN IF ~f.ok THEN [f EXCEPT !.r = [r EXCEPT !.left = f.r]]
       ELSE IF f.buf = <<>>
       THEN LET g == FillBuf(r.right)
            IN [g EXCEPT !.r = [r EXCEPT !.left = f.r, !.right = g.r, !.is_right = TRUE],
                         !.trace = f.trace \o g.trace]
       ELSE [f EXCEPT !.r = [r EXCEPT !.left = f.r]]

\* Chain::fill_buf that sets the flag only after the right reader succeeded.
ChainFillBuf_SwitchLost(r) ==
    IF r.is_right
    THEN LET g == FillBuf(r.right)
         IN [g EXCEPT !.r = [r EXCEPT !.right = g.r]]
    ELSE LET f == FillBuf(r.left)
         IN IF ~f.ok THEN [f EXCEPT !.r = [r EXCEPT !.left = f.r]]
            ELSE IF f.buf = <<>>
            THEN LET g == FillBuf(r.right)
                 IN [g EXCEPT !.r = [r EXCEPT !.left = f.r, !.right = g.r, !.is_right = g.ok],
                              !.trace = f.trace \o g.trace]
            ELSE [f EXCEPT !.r = [r EXCEPT !.left = f.r]]

\* Chain::fill_buf that never moves on to the right reader.
ChainFillBuf_StaysLeft(r) ==
    LET f == FillBuf(r.left)
    IN [f EXCEPT !.r = [r EXCEPT !.left = f.r]]

\* Chain::fill_buf
ChainFillBuf(r) ==
    IF r.is_right
    THEN LET g == FillBuf(r.right)
         IN [g EXCEPT !.r = [r EXCEPT !.right = g.r]]
    ELSE LET f == FillBuf(r.left)
         IN IF ~f.ok THEN [f EXCEPT !.r = [r EXCEPT !.left = f.r]]
            ELSE IF f.buf = <<>>
            THEN LET g == FillBuf(r.right)
                 IN [g EXCEPT !.r = [r EXCEPT !.left = f.r, !.right = g.r, !.is_right = TRUE],
                              !.trace = f.trace \o g.trace]
            ELSE [f EXCEPT !.r = [r EXCEPT !.left = f.r]]

\* Chain::consume that forwards to the left reader whatever side is active.
ChainConsume_LeftOnly(r, amount) ==
    [r EXCEPT !.left = Consume(r.left, min(amount, Len(r.left.data)))]

\* Chain::consume
ChainConsume(r, amount) ==
    IF r.is_right
    THEN [r EXCEPT !.right = Consume(r.right, amount)]
    ELSE [r EXCEPT !.left = Consume(r.left, amount)]

\* ---------------------------------------------------------------- &mut [u8]
\* A mutable slice is [kind |-> "mut_slice", mem, pos]: mem is the array it
\* was made over and pos the number of bytes cut off its front, so that the
\* slice itself is Drop_(mem, pos) and its len() is Len(mem) - pos.
MutSlice(mem) == [kind |-> "mut_slice", mem |-> mem, pos |-> 0]

\* fill_buf of &mut [u8] that reads by itself: the bytes it returns are gone
\* from the reader without a consume.
MutSliceFillBuf_Advances(r) ==
    OkBuf([r EXCEPT !.pos = Len(r.mem)], Drop_(r.mem, r.pos), <<"M">>)

\* impl BufRead for &mut [u8]: fill_buf
MutSliceFillBuf(r) == OkBuf(r, Drop_(r.mem, r.pos), <<"M">>)

\* impl BufRead for &mut [u8]: consume
MutSliceConsume(r, amount) == [r EXCEPT !.pos = r.pos + amount]

\* BufferOverflow::new
BufferOverflow(r, bytes_past_end) == WErr(r, "BufferOverflow", bytes_past_end)

\* write_all of &mut [u8] that stores the bytes that fit before it fails.
MutSliceWriteAll_Partial(r, bytes) ==
    LET len == Len(r.mem) - r.pos
        fit == min(Len(bytes), len)
        stored == [r EXCEPT !.mem = Take_(r.mem, r.pos) \o Take_(bytes, fit)
                                      \o Drop_(r.mem, r.pos + fit),
                            !.pos = r.pos + fit]
    IN IF Len(bytes) > len THEN BufferOverflow(stored, Len(bytes) - len)
       ELSE WOk(stored)

\* write_all of &mut [u8] that refuses the bytes that fill it exactly.
MutSliceWriteAll_RejectsExactFit(r, bytes) ==
    LET len == Len(r.mem) - r.pos
    IN IF Len(bytes) >= len
       THEN BufferOverflow(r, Len(bytes) - len)
       ELSE WOk([r EXCEPT !.mem = Take_(r.mem, r.pos) \o bytes
                                     \o Drop_(r.mem, r.pos + Len(bytes)),
                          !.pos = r.pos + Len(bytes)])

\* write_all of &mut [u8] that stores the bytes and leaves the front of the
\* slice where it was.
MutSliceWriteAll_KeepsFront(r, bytes) ==
    LET len == Len(r.mem) - r.pos
    IN IF Len(bytes) > len
       THEN BufferOverflow(r, Len(bytes) - len)
       ELSE WOk([r EXCEPT !.mem = Take_(r.mem, r.pos) \o bytes
                                     \o Drop_(r.mem, r.pos + Len(bytes))])

\* impl BufWrite for &mut [u8]: write_all
MutSliceWriteAll(r, bytes) ==
    LET len == Len(r.mem) - r.pos
    IN IF Len(bytes) > len
       THEN BufferOverflow(r, Len(bytes) - len)
       ELSE WOk([r EXCEPT !.mem = Take_(r.mem, r.pos) \o bytes
                                     \o Drop_(r.mem, r.pos + Len(bytes)),
                          !.pos = r.pos + Len(bytes)])

\* impl BufWrite for &mut [u8]: flush
MutSliceFlush(r) == WOk(r)

\* ---------------------------------------------------------------- &mut T
\* BufRead::by_ref: the reader borrowed, [kind |-> "mut_ref", target]
by_ref(reader) == [kind |-> "mut_ref", target |-> reader]

\* impl BufRead for &mut T: fill_buf
MutRefFillBuf(r) ==
    LET f == FillBuf(r.target) IN [f EXCEPT !.r = [r EXCEPT !.target = f.r]]

\* impl BufRead for &mut T: consume
MutRefConsume(r, amount) == [r EXCEPT !.target = Consume(r.target, amount)]

\* ---------------------------------------------------------------- Vec<u8>
\* write_all of Vec<u8> that replaces the contents instead of extending them.
VecWriteAll_Overwrite(r, bytes) == WOk([r EXCEPT !.bytes = bytes])

\* impl BufWrite for Vec<u8>: write_all
VecWriteAll(r, bytes) == WOk([r EXCEPT !.bytes = r.bytes \o bytes])

\* impl BufWrite for Vec<u8>: flush
VecFlush(r) == WOk(r)

\* ---------------------------------------------------------------- Empty, Sink, Null
\* impl BufRead for Empty
EmptyFillBuf(r) == OkBuf(r, <<>>, <<"E">>)
EmptyConsume(r, amount) == r

\* impl BufWrite for Sink
SinkWriteAll(r, bytes) == WOk(r)
SinkFlush(r) == WOk(r)

\* impl BufRead for Null
NullFillBuf(r) == OkBuf(r, <<>>, <<"N">>)
NullConsume(r, amount) == r

\* write_all of Null that refuses a non-empty write.
NullWriteAll_RejectsData(r, bytes) ==
    IF bytes = <<>> THEN WOk(r) ELSE BufferOverflow(r, Len(bytes))

\* impl BufWrite for Null
NullWriteAll(r, bytes) == WOk(r)
NullFlush(r) == WOk(r)

\* ---------------------------------------------------------------- a fallible reader-writer
\* An Io: BufRead + BufWrite whose calls can fail, as the adapters take it:
\* [kind |-> "dev", name, data, script, sunk, wscript]. It reads as a leaf
\* reader does; the head of wscript decides whether the next write_all or
\* flush returns Err(e), and sunk holds the bytes write_all accepted.
Dev(data, script, wscript) ==
    [kind |-> "dev", name |-> "D", data |-> data, script |-> script,
     sunk |-> <<>>, wscript |-> wscript]

DevWriteAll(r, bytes) ==
    IF r.wscript = <<>> THEN WOk([r EXCEPT !.sunk = r.sunk \o bytes])
    ELSE LET r2 == [r EXCEPT !.wscript = Tail(r.wscript)]
         IN IF Head(r.wscript) = NoErr THEN WOk([r2 EXCEPT !.sunk = r.sunk \o bytes])
            ELSE WErr(r2, Head(r.wscript), 0)

DevFlush(r) ==
    IF r.wscript = <<>> THEN WOk(r)
    ELSE LET r2 == [r EXCEPT !.wscript = Tail(r.wscript)]
         IN IF Head(r.wscript) = NoErr THEN WOk(r2)
            ELSE WErr(r2, Head(r.wscript), 0)

\* ---------------------------------------------------------------- error mapping
\* The closure f given to map_read_err, map_write_err and map_err, and the
\* conversion Into::into used by unify_err, as functions of the error value.
MapperF(e) ==
    CASE e = "e1" -> "f(e1)"
      [] e = "e2" -> "f(e2)"
      [] e = "BufferOverflow" -> "f(BufferOverflow)"

into(e) ==
    CASE e = "e1" -> "into(e1)"
      [] e = "e2" -> "into(e2)"
      [] e = "BufferOverflow" -> "into(BufferOverflow)"

\* Result::map_err(&mut self.mapper) on the result x of an inner call whose
\* owner is the adapter r: an Err(e) becomes Err(f(e)) and the FnMut closure
\* is called once (calls counts its calls), an Ok is passed on.
map_err_mapper(r, x) ==
    IF x.ok THEN x
    ELSE [x EXCEPT !.err = MapperF(x.err), !.r = [x.r EXCEPT !.calls = r.calls + 1]]

\* Result::map_err(Into::into)
map_err_into(x) == IF x.ok THEN x ELSE [x EXCEPT !.err = into(x.err)]

\* MapReadErr::new
MapReadErrNew(reader) == [kind |-> "map_read_err", reader |-> reader, calls |-> 0]

\* MapReadErr::fill_buf
MapReadErrFillBuf(r) ==
    LET f == FillBuf(r.reader)
    IN map_err_mapper(r, [f EXCEPT !.r = [r EXCEPT !.reader = f.r]])

\* MapReadErr::consume that drops the call.
MapReadErrConsume_Dropped(r, amount) == r

\* MapReadErr::consume
MapReadErrConsume(r, amount) == [r EXCEPT !.reader = Consume(r.reader, amount)]

\* MapWriteErr::new
MapWriteErrNew(writer) == [kind |-> "map_write_err", writer |-> writer, calls |-> 0]

\* MapWriteErr::write_all
MapWriteErrWriteAll(r, bytes) ==
    LET w == WriteAll(r.writer, bytes)
    IN map_err_mapper(r, [w EXCEPT !.r = [r EXCEPT !.writer = w.r]])

\* MapWriteErr::flush
MapWriteErrFlush(r) ==
    LET w == Flush(r.writer)
    IN map_err_mapper(r, [w EXCEPT !.r = [r EXCEPT !.writer = w.r]])

\* MapErr::new
MapErrNew(io) == [kind |-> "map_err", io |-> io, calls |-> 0]

\* MapErr::fill_buf
MapErrFillBuf(r) ==
    LET f == FillBuf(r.io)
    IN map_err_mapper(r, [f EXCEPT !.r = [r EXCEPT !.io = f.r]])

\* MapErr::consume
MapErrConsume(r, amount) == [r EXCEPT !.io = Consume(r.io, amount)]

\* MapErr::write_all
MapErrWriteAll(r, bytes) ==
    LET w == WriteAll(r.io, bytes)
    IN map_err_mapper(r, [w EXCEPT !.r = [r EXCEPT !.io = w.r]])

\* MapErr::flush that passes the inner error on without the closure.
MapErrFlush_Unmapped(r) ==
    LET w == Flush(r.io)
    IN [w EXCEPT !.r = [r EXCEPT !.io = w.r]]

\* MapErr::flush
MapErrFlush(r) ==
    LET w == Flush(r.io)
    IN map_err_mapper(r, [w EXCEPT !.r = [r EXCEPT !.io = w.r]])

\* UnifyErr::new
UnifyErrNew(io) == [kind |-> "unify_err", io |-> io]

\* UnifyErr::fill_buf
UnifyErrFillBuf(r) ==
    LET f == FillBuf(r.io)
    IN map_err_into([f EXCEPT !.r = [r EXCEPT !.io = f.r]])

\* UnifyErr::consume
UnifyErrConsume(r, amount) == [r EXCEPT !.io = Consume(r.io, amount)]

\* UnifyErr::write_all
UnifyErrWriteAll(r, bytes) ==
    LET w == WriteAll(r.io, bytes)
    IN map_err_into([w EXCEPT !.r = [r EXCEPT !.io = w.r]])

\* UnifyErr::flush
UnifyErrFlush(r) ==
    LET w == Flush(r.io)
    IN map_err_into([w EXCEPT !.r = [r EXCEPT !.io = w.r]])

\* ---------------------------------------------------------------- std bridges
\* A std::io::BufRead implementor, [kind |-> "buf_reader", name, data,
\* script]: its std fill_buf returns Err(e) or its buffer as the head of the
\* script says; e may be the io::Error of kind Interrupted.
Interrupted == "Interrupted"

StdReader(data, script) ==
    [kind |-> "buf_reader", name |-> "S", data |-> data, script |-> script]

\* std::io::BufRead::fill_buf and consume of the wrapped reader
StdIoFillBuf(r) == LeafFillBuf(r)
StdIoConsume(r, amount) == SliceConsume(r, amount)

\* fn fill_buf(reader): loop { match std::io::BufRead::fill_buf(reader) }
RECURSIVE fill_buf(_)
fill_buf(reader) ==
    LET f == StdIoFillBuf(reader)
    IN IF f.ok THEN f
       ELSE IF f.err = Interrupted
            THEN LET g == fill_buf(f.r) IN [g EXCEPT !.trace = f.trace \o g.trace]
            ELSE f

\* impl BufRead for std::io::BufReader<T> (and the other std reader types)
BufReaderFillBuf(r) == fill_buf(r)
BufReaderConsume(r, amount) == StdIoConsume(r, amount)

\* StdBufRead::new (from_std_reader)
StdBufReadNew(io) == [kind |-> "std_buf_read", io |-> io]

\* StdBufRead::fill_buf returning Interrupted to its caller instead of
\* calling again.
StdBufReadFillBuf_NoRetry(r) ==
    LET f == StdIoFillBuf(r.io)
    IN [f EXCEPT !.r = [r EXCEPT !.io = f.r]]

\* StdBufRead::fill_buf: loop { match self.0.fill_buf() }
RECURSIVE StdBufReadFillBuf(_)
StdBufReadFillBuf(r) ==
    LET f  == StdIoFillBuf(r.io)
        r2 == [r EXCEPT !.io = f.r]
    IN IF f.ok THEN [f EXCEPT !.r = r2]
       ELSE IF f.err = Interrupted
            THEN LET g == StdBufReadFillBuf(r2) IN [g EXCEPT !.trace = f.trace \o g.trace]
            ELSE [f EXCEPT !.r = r2]

\* One turn of the loop of the helper fill_buf on the result f of the
\* wrapped fill_buf: done tells whether the loop returns f.
fill_buf_turn(f) ==
    [done |-> (f.ok \/ f.err # Interrupted), res |-> f]

\* One turn of the loop of StdBufRead::fill_buf that returns whatever the
\* wrapped fill_buf gave, an Interrupted error too.
StdBufReadTurn_GivesUp(r, f) ==
    [done |-> TRUE, res |-> [f EXCEPT !.r = [r EXCEPT !.io = f.r]]]

\* One turn of the loop of StdBufRead::fill_buf on the result f of
\* self.0.fill_buf(): Ok breaks, Interrupted goes round, any other error breaks.
StdBufReadTurn(r, f) ==
    [done |-> (f.ok \/ f.err # Interrupted), res |-> [f EXCEPT !.r = [r EXCEPT !.io = f.r]]]

\* StdBufRead::consume
StdBufReadConsume(r, amount) == [r EXCEPT !.io = StdIoConsume(r.io, amount)]

\* io::Result<usize> of io::Read::read together with the bridge and the
\* destination after the call and the trace of the inner fill_buf calls.
ReadOk(r, n, buf, trace) ==
    [r |-> r, ok |-> TRUE, err |-> NoErr, n |-> n, buf |-> buf, trace |-> trace]
ReadErr(r, e, buf, trace) ==
    [r |-> r, ok |-> FALSE, err |-> e, n |-> 0, buf |-> buf, trace |-> trace]

\* AsStd::new (into_std)
AsStdNew(io) == [kind |-> "as_std", unify |-> UnifyErrNew(io)]

\* <AsStd as io::Read>::read
AsStdRead(r, buf) ==
    LET f == FillBuf(r.unify)
    IN IF ~f.ok THEN ReadErr([r EXCEPT !.unify = f.r], f.err, buf, f.trace)
       ELSE LET to_copy == min(Len(buf), Len(f.buf))
            IN ReadOk([r EXCEPT !.unify = Consume(f.r, to_copy)], to_copy,
                      Take_(f.buf, to_copy) \o Drop_(buf, to_copy), f.trace)

\* <AsStd as io::BufRead>::fill_buf and consume
AsStdFillBuf(r) ==
    LET f == FillBuf(r.unify) IN [f EXCEPT !.r = [r EXCEPT !.unify = f.r]]
AsStdConsume(r, amount) == [r EXCEPT !.unify = Consume(r.unify, amount)]

\* io::Result<usize> of io::Write::write together with the bridge after the
\* call.
WroteOk(r, n) == [r |-> r, ok |-> TRUE, err |-> NoErr, n |-> n]
WroteErr(r, e) == [r |-> r, ok |-> FALSE, err |-> e, n |-> 0]

\* <AsStd as io::Write>::write
AsStdWrite(r, buf) ==
    LET w == WriteAll(r.unify, buf)
    IN IF ~w.ok THEN WroteErr([r EXCEPT !.unify = w.r], w.err)
       ELSE WroteOk([r EXCEPT !.unify = w.r], Len(buf))

\* <AsStd as io::Write>::write_all
AsStdWriteAll(r, buf) ==
    LET w == WriteAll(r.unify, buf) IN [w EXCEPT !.r = [r EXCEPT !.unify = w.r]]

\* <AsStd as io::Write>::flush
AsStdFlush(r) ==
    LET w == Flush(r.unify) IN [w EXCEPT !.r = [r EXCEPT !.unify = w.r]]

\* AsStdReader::new (into_std_reader)
AsStdReaderNew(io) == [kind |-> "as_std_reader", io |-> io]

\* <AsStdReader as io::Read>::read consuming the whole slice fill_buf
\* returned instead of the bytes copied.
AsStdReaderRead_ConsumesSlice(r, buf) ==
    LET f == map_err_into(FillBuf(r.io))
    IN IF ~f.ok THEN ReadErr([r EXCEPT !.io = f.r], f.err, buf, f.trace)
       ELSE LET to_copy == min(Len(buf), Len(f.buf))
            IN ReadOk([r EXCEPT !.io = Consume(f.r, Len(f.buf))], to_copy,
                      Take_(f.buf, to_copy) \o Drop_(buf, to_copy), f.trace)

\* <AsStdReader as io::Read>::read
AsStdReaderRead(r, buf) ==
    LET f == map_err_into(FillBuf(r.io))
    IN IF ~f.ok THEN ReadErr([r EXCEPT !.io = f.r], f.err, buf, f.trace)
       ELSE LET to_copy == min(Len(buf), Len(f.buf))
            IN ReadOk([r EXCEPT !.io = Consume(f.r, to_copy)], to_copy,
                      Take_(f.buf, to_copy) \o Drop_(buf, to_copy), f.trace)

\* <AsStdReader as io::BufRead>::fill_buf and consume
AsStdReaderFillBuf(r) ==
    LET f == map_err_into(FillBuf(r.io)) IN [f EXCEPT !.r = [r EXCEPT !.io = f.r]]
AsStdReaderConsume(r, amount) == [r EXCEPT !.io = Consume(r.io, amount)]

\* io::Read::read, by the type of the bridge
Read(r, buf) ==
    CASE r.kind = "as_std" -> AsStdRead(r, buf)
      [] r.kind = "as_std_reader" -> AsStdReaderRead(r, buf)

\* ---------------------------------------------------------------- BufRead
\* BufRead::fill_buf, by the type of the reader
FillBuf(r) ==
    CASE r.kind = "slice" -> LeafFillBuf(r)
      [] r.kind = "take"  -> TakeFillBuf(r)
      [] r.kind = "chain" -> ChainFillBuf(r)
      [] r.kind = "dev"   -> LeafFillBuf(r)
      [] r.kind = "mut_slice" -> MutSliceFillBuf(r)
      [] r.kind = "empty" -> EmptyFillBuf(r)
      [] r.kind = "null"  -> NullFillBuf(r)
      [] r.kind = "map_read_err" -> MapReadErrFillBuf(r)
      [] r.kind = "map_err" -> MapErrFillBuf(r)
      [] r.kind = "unify_err" -> UnifyErrFillBuf(r)
      [] r.kind = "mut_ref" -> MutRefFillBuf(r)
      [] r.kind = "buf_reader" -> BufReaderFillBuf(r)
      [] r.kind = "std_buf_read" -> StdBufReadFillBuf(r)
      [] r.kind = "as_std" -> AsStdFillBuf(r)
      [] r.kind = "as_std_reader" -> AsStdReaderFillBuf(r)

\* BufRead::consume, by the type of the reader
Consume(r, amount) ==
    CASE r.kind = "slice" -> SliceConsume(r, amount)
      [] r.kind = "take"  -> TakeConsume(r, amount)
      [] r.kind = "chain" -> ChainConsume(r, amount)
      [] r.kind = "dev"   -> SliceConsume(r, amount)
      [] r.kind = "mut_slice" -> MutSliceConsume(r, amount)
      [] r.kind = "empty" -> EmptyConsume(r, amount)
      [] r.kind = "null"  -> NullConsume(r, amount)
      [] r.kind = "map_read_err" -> MapReadErrConsume(r, amount)
      [] r.kind = "map_err" -> MapErrConsume(r, amount)
      [] r.kind = "unify_err" -> UnifyErrConsume(r, amount)
      [] r.kind = "mut_ref" -> MutRefConsume(r, amount)
      [] r.kind = "buf_reader" -> BufReaderConsume(r, amount)
      [] r.kind = "std_buf_read" -> StdBufReadConsume(r, amount)
      [] r.kind = "as_std" -> AsStdConsume(r, amount)
      [] r.kind = "as_std_reader" -> AsStdReaderConsume(r, amount)

\* ---------------------------------------------------------------- BufWrite
\* BufWrite::write_all, by the type of the writer
WriteAll(r, bytes) ==
    CASE r.kind = "mut_slice" -> MutSliceWriteAll(r, bytes)
      [] r.kind = "vec"   -> VecWriteAll(r, bytes)
      [] r.kind = "sink"  -> SinkWriteAll(r, bytes)
      [] r.kind = "null"  -> NullWriteAll(r, bytes)
      [] r.kind = "dev"   -> DevWriteAll(r, bytes)
      [] r.kind = "map_write_err" -> MapWriteErrWriteAll(r, bytes)
      [] r.kind = "map_err" -> MapErrWriteAll(r, bytes)
      [] r.kind = "unify_err" -> UnifyErrWriteAll(r, bytes)
      [] r.kind = "as_std" -> AsStdWriteAll(r, bytes)

\* BufWrite::flush, by the type of the writer
Flush(r) ==
    CASE r.kind = "mut_slice" -> MutSliceFlush(r)
      [] r.kind = "vec"   -> VecFlush(r)
      [] r.kind = "sink"  -> SinkFlush(r)
      [] r.kind = "null"  -> NullFlush(r)
      [] r.kind = "dev"   -> DevFlush(r)
      [] r.kind = "map_write_err" -> MapWriteErrFlush(r)
      [] r.kind = "map_err" -> MapErrFlush(r)
      [] r.kind = "unify_err" -> UnifyErrFlush(r)
      [] r.kind = "as_std" -> AsStdFlush(r)

\* ---------------------------------------------------------------- read_exact
\* What one fill_buf call made by read_exact returned.
Outcome(f) == [ok |-> f.ok, err |-> f.err, len |-> Len(f.buf)]

\* ReadExactError::unexpected_end(total_required, available)
unexpected_end(r, total_required, available, dest, log) ==
    [r |-> r, tag |-> "UnexpectedEnd", err |-> NoErr,
     total_required |-> total_required, available |-> available,
     dest |-> dest, log |-> log]

\* ReadExactError::ReadingFailed(error)
ReadingFailed(r, error, dest, log) ==
    [r |-> r, tag |-> "ReadingFailed", err |-> error,
     total_required |-> 0, available |-> 0, dest |-> dest, log |-> log]

\* The loop of read_exact, consuming the whole returned slice after each copy.
RECURSIVE ReadExactLoop_ConsumeAll(_, _, _, _)
ReadExactLoop_ConsumeAll(r, required, dest, log) ==
    IF required - Len(dest) = 0
    THEN [r |-> r, tag |-> "Ok", err |-> NoErr, total_required |-> 0, available |-> 0,
          dest |-> dest, log |-> log]
    ELSE LET f == FillBuf(r)
             lg == Append(log, Outcome(f))
         IN IF ~f.ok THEN ReadingFailed(f.r, f.err, dest, lg)
            ELSE IF f.buf = <<>>
            THEN unexpected_end(f.r, required, required - Len(dest), dest, lg)
            ELSE LET to_copy == min(required - Len(dest), Len(f.buf))
                 IN ReadExactLoop_ConsumeAll(Consume(f.r, Len(f.buf)), required,
                                             dest \o Take_(f.buf, to_copy), lg)

\* The loop of read_exact, calling fill_buf again after a failed fill_buf.
RECURSIVE ReadExactLoop_Retry(_, _, _, _)
ReadExactLoop_Retry(r, required, dest, log) ==
    IF required - Len(dest) = 0
    THEN [r |-> r, tag |-> "Ok", err |-> NoErr, total_required |-> 0, available |-> 0,
          dest |-> dest, log |-> log]
    ELSE LET f == FillBuf(r)
             lg == Append(log, Outcome(f))
         IN IF ~f.ok THEN ReadExactLoop_Retry(f.r, required, dest, lg)
            ELSE IF f.buf = <<>>
            THEN unexpected_end(f.r, required, required - Len(dest), dest, lg)
            ELSE LET to_copy == min(required - Len(dest), Len(f.buf))
                 IN ReadExactLoop_Retry(f.r, required, dest \o Take_(f.buf, to_copy), lg)

\* The loop of BufRead::read_exact. dest holds the bytes copied so far, so
\* the part of buf still to fill has length required - Len(dest); log lists
\* the outcomes of the fill_buf calls made on self. The loop calls fill_buf
\* and copies; the source makes no call to consume in it.
RECURSIVE ReadExactLoop(_, _, _, _)
ReadExactLoop(r, required, dest, log) ==
    IF required - Len(dest) = 0
    THEN [r |-> r, tag |-> "Ok", err |-> NoErr, total_required |-> 0, available |-> 0,
          dest |-> dest, log |-> log]
    ELSE LET f == FillBuf(r)
             lg == Append(log, Outcome(f))
         IN IF ~f.ok THEN ReadingFailed(f.r, f.err, dest, lg)
            ELSE IF f.buf = <<>>
            THEN unexpected_end(f.r, required, required - Len(dest), dest, lg)
            ELSE LET to_copy == min(required - Len(dest), Len(f.buf))
                 IN ReadExactLoop(f.r, required, dest \o Take_(f.buf, to_copy), lg)

\* BufRead::read_exact with a destination of n bytes
read_exact(r, n) == ReadExactLoop(r, n, <<>>, <<>>)

\* ---------------------------------------------------------------- read_byte
\* BufRead::read_byte that returns the first byte without consuming it.
read_byte_NoConsume(r) ==
    LET f == FillBuf(r)
    IN IF ~f.ok THEN [r |-> f.r, ok |-> FALSE, err |-> f.err, byte |-> <<>>, log |-> <<Outcome(f)>>]
       ELSE IF f.buf = <<>>
       THEN [r |-> f.r, ok |-> TRUE, err |-> NoErr, byte |-> <<>>, log |-> <<Outcome(f)>>]
       ELSE [r |-> f.r, ok |-> TRUE, err |-> NoErr,
             byte |-> <<Head(f.buf)>>, log |-> <<Outcome(f)>>]

\* BufRead::read_byte. byte is the Option<u8> returned: <<>> for None, <<b>>
\* for Some(b); log holds the outcome of the one fill_buf call.
read_byte(r) ==
    LET f == FillBuf(r)
    IN IF ~f.ok THEN [r |-> f.r, ok |-> FALSE, err |-> f.err, byte |-> <<>>, log |-> <<Outcome(f)>>]
       ELSE IF f.buf = <<>>
       THEN [r |-> f.r, ok |-> TRUE, err |-> NoErr, byte |-> <<>>, log |-> <<Outcome(f)>>]
       ELSE [r |-> Consume(f.r, 1), ok |-> TRUE, err |-> NoErr,
             byte |-> <<Head(f.buf)>>, log |-> <<Outcome(f)>>]

\* ---------------------------------------------------------------- read_to_end
\* The loop of read_to_end, returning after the first slice it appended.
ReadToEndLoop_OneSlice(r, buf, total, log) ==
    LET f == FillBuf(r)
        lg == Append(log, Outcome(f))
    IN IF ~f.ok THEN [r |-> f.r, ok |-> FALSE, err |-> f.err, buf |-> buf, total |-> total, log |-> lg]
       ELSE IF f.buf = <<>>
       THEN [r |-> f.r, ok |-> TRUE, err |-> NoErr, buf |-> buf, total |-> total, log |-> lg]
       ELSE [r |-> Consume(f.r, Len(f.buf)), ok |-> TRUE, err |-> NoErr,
             buf |-> buf \o f.buf, total |-> total + Len(f.buf), log |-> lg]

\* The loop of read_to_end, consuming a slice before the fill_buf that may
\* fail but appending it only after that fill_buf.
RECURSIVE ReadToEndLoop_LateAppend(_, _, _, _, _)
ReadToEndLoop_LateAppend(r, buf, total, log, pending) ==
    LET f == FillBuf(r)
        lg == Append(log, Outcome(f))
    IN IF ~f.ok THEN [r |-> f.r, ok |-> FALSE, err |-> f.err, buf |-> buf, total |-> total, log |-> lg]
       ELSE IF f.buf = <<>>
       THEN [r |-> f.r, ok |-> TRUE, err |-> NoErr, buf |-> buf \o pending,
             total |-> total, log |-> lg]
       ELSE ReadToEndLoop_LateAppend(Consume(f.r, Len(f.buf)), buf \o pending,
                                     total + Len(f.buf), lg, f.buf)

ReadToEndLoop_LosesOnError(r, buf, total, log) ==
    ReadToEndLoop_LateAppend(r, buf, total, log, <<>>)

\* The loop of BufRead::read_to_end: buf is the destination, total the count
\* of bytes appended so far, log the outcomes of the fill_buf calls made.
RECURSIVE ReadToEndLoop(_, _, _, _)
ReadToEndLoop(r, buf, total, log) ==
    LET f == FillBuf(r)
        lg == Append(log, Outcome(f))
    IN IF ~f.ok THEN [r |-> f.r, ok |-> FALSE, err |-> f.err, buf |-> buf, total |-> total, log |-> lg]
       ELSE IF f.buf = <<>>
       THEN [r |-> f.r, ok |-> TRUE, err |-> NoErr, buf |-> buf, total |-> total, log |-> lg]
       ELSE ReadToEndLoop(Consume(f.r, Len(f.buf)), buf \o f.buf, total + Len(f.buf), lg)

\* BufRead::read_to_end into a destination that holds buf
read_to_end(r, buf) == ReadToEndLoop(r, buf, 0, <<>>)

\* ---------------------------------------------------------------- state machine
\* cfg   the construction: kind of the reader and the bytes, limit it was built from
\* rd    the reader
\* view  the part of the slice fill_buf last returned that is not yet consumed
\* out   the bytes the caller consumed through consume, in order
\* eof   a fill_buf of the caller returned Ok(empty)
\* last  the last operation: its argument n, the reader before it (pre) and
\*       its result; trace names the leaf readers a fill_buf invoked, log
\*       lists the outcomes of the fill_buf calls a read_exact made
\* Scripts of at most MaxScript outcomes. A script does not end in "ok": a
\* leaf whose script has run out lets every call through as well.
Scripts == {s \in SeqsUpTo({NoErr} \cup Errs, MaxScript) : s = <<>> \/ s[Len(s)] # NoErr}

Leaf(name, data, script) == [kind |-> "slice", name |-> name, data |-> data, script |-> script]

\* The bytes of the two slices: no byte value occurs twice, so that a byte
\* delivered twice, dropped or out of order shows in the bytes read. The
\* code never looks at the value of a byte.
DatasA == {[i \in 1..k |-> i] : k \in 0..MaxLen}
DatasB == {[i \in 1..k |-> MaxLen + i] : k \in 0..MaxLen}

\* A slice, slice.take(limit) and slice.chain(slice); the scripts of the two
\* sides of a chain hold at most MaxScript outcomes together.
Configs ==
    {[kind |-> "slice", A |-> a, B |-> <<>>, limit |-> 0, sa |-> s, sb |-> <<>>] :
        a \in DatasA, s \in Scripts}
    \cup
    {[kind |-> "take", A |-> a, B |-> <<>>, limit |-> l, sa |-> s, sb |-> <<>>] :
        a \in DatasA, s \in Scripts, l \in 0..MaxLimit}
    \cup
    {c \in {[kind |-> "chain", A |-> a, B |-> b, limit |-> 0, sa |-> s, sb |-> t] :
                a \in DatasA, b \in DatasB, s \in Scripts, t \in Scripts} :
        Len(c.sa) + Len(c.sb) <= MaxScript}

Build(c) ==
    CASE c.kind = "slice" -> Leaf("A", c.A, c.sa)
      [] c.kind = "take"  -> TakeNew(Leaf("A", c.A, c.sa), c.limit)
      [] c.kind = "chain" -> ChainNew(Leaf("A", c.A, c.sa), Leaf("B", c.B, c.sb))

NoOp(r) ==
    [op |-> "new", n |-> 0, pre |-> r, ok |-> TRUE, buf |-> <<>>, err |-> NoErr,
     tag |-> "", dest |-> <<>>, total_required |-> 0, available |-> 0,
     log |-> <<>>, trace |-> <<>>]

Init ==
    /\ cfg \in Configs
    /\ rd = Build(cfg)
    /\ view = <<>>
    /\ out = <<>>
    /\ eof = FALSE
    /\ last = NoOp(rd)

\* The caller calls fill_buf.
DoFillBuf ==
    LET f == FillBuf(rd)
    IN /\ rd' = f.r
       /\ view' = f.buf
       /\ eof' = (eof \/ (f.ok /\ f.buf = <<>>))
       /\ last' = [NoOp(rd) EXCEPT !.op = "fill_buf", !.ok = f.ok, !.buf = f.buf,
                                   !.err = f.err, !.trace = f.trace]
       /\ UNCHANGED <<cfg, out>>

\* The caller calls consume(n), n within the slice fill_buf last returned.
DoConsume ==
    \E n \in 0..Len(view) :
       /\ last.op \in {"fill_buf", "consume"}
       /\ last.ok
       /\ rd' = Consume(rd, n)
       /\ view' = Drop_(view, n)
       /\ out' = out \o Take_(view, n)
       /\ last' = [NoOp(rd) EXCEPT !.op = "consume", !.n = n]
       /\ UNCHANGED <<cfg, eof>>

\* The caller calls read_exact with a destination of n bytes.
DoReadExact ==
    \E n \in 0..MaxDest :
       LET x == read_exact(rd, n)
       IN /\ rd' = x.r
          /\ view' = <<>>
          /\ eof' = (eof \/ x.tag = "UnexpectedEnd")
          /\ last' = [NoOp(rd) EXCEPT !.op = "read_exact", !.n = n, !.ok = (x.tag = "Ok"),
                         !.err = x.err, !.tag = x.tag, !.dest = x.dest,
                         !.total_required = x.total_required, !.available = x.available,
                         !.log = x.log]
          /\ UNCHANGED <<cfg, out>>

Next == DoFillBuf \/ DoConsume \/ DoReadExact

Spec == Init /\ [][Next]_vars

\* ---------------------------------------------------------------- derived reads
\* The readers of Spec, read with fill_buf, consume, read_byte and
\* read_to_end. out holds every byte the caller took from the reader: the
\* bytes consumed, the bytes read_byte returned and the bytes read_to_end
\* appended.
\* Prior contents of the destination given to read_to_end.
Priors == {<<>>, <<0>>}

\* The caller calls read_byte.
DoReadByte ==
    LET x == read_byte(rd)
    IN /\ rd' = x.r
       /\ view' = <<>>
       /\ out' = out \o x.byte
       /\ eof' = (eof \/ (x.ok /\ x.byte = <<>>))
       /\ last' = [op |-> "read_byte", pre |-> rd, ok |-> x.ok, err |-> x.err,
                   byte |-> x.byte, log |-> x.log]
       /\ UNCHANGED cfg

\* The caller calls read_to_end with a destination holding prior.
DoReadToEnd ==
    \E prior \in Priors :
       LET x == read_to_end(rd, prior)
       IN /\ rd' = x.r
          /\ view' = <<>>
          /\ out' = out \o Drop_(x.buf, Len(prior))
          /\ eof' = (eof \/ x.ok)
          /\ last' = [op |-> "read_to_end", pre |-> rd, ok |-> x.ok, err |-> x.err,
                      prior |-> prior, dest |-> x.buf, total |-> x.total, log |-> x.log]
          /\ UNCHANGED cfg

NextRead == DoFillBuf \/ DoConsume \/ DoReadByte \/ DoReadToEnd

SpecRead == Init /\ [][NextRead]_vars

\* ---------------------------------------------------------------- readers and writers
\* The in-memory readers and writers and the error-mapping adapters, used
\* through fill_buf, consume, write_all and flush. out holds the bytes the
\* caller consumed and the bytes write_all accepted, in call order.
IsReader(r) ==
    r.kind \in {"slice", "take", "chain", "dev", "mut_slice", "empty", "null",
                "map_read_err", "map_err", "unify_err"}

IsWriter(r) ==
    r.kind \in {"mut_slice", "vec", "sink", "null", "dev",
                "map_write_err", "map_err", "unify_err"}

\* The number of calls made to the closure of an adapter so far.
Calls(r) == IF r.kind \in {"map_read_err", "map_write_err", "map_err"} THEN r.calls ELSE 0

\* The contents of the array a mutable slice of cap bytes is made over.
Mem0(cap) == [i \in 1..cap |-> 20 + i]

\* The byte sequences given to write_all.
WriteSeqs == SeqsUpTo({7, 8}, MaxWrite)

\* The scripts of the read side and of the write side of a fallible
\* reader-writer hold at most MaxScript outcomes together.
ScriptPairs == {p \in Scripts \X Scripts : Len(p[1]) + Len(p[2]) <= MaxScript}

IoConfigs ==
    {[kind |-> k, inner |-> "none", A |-> <<>>, sa |-> <<>>, sw |-> <<>>, cap |-> 0] :
        k \in {"vec", "empty", "sink", "null"}}
    \cup
    {[kind |-> k, inner |-> "mut_slice", A |-> <<>>, sa |-> <<>>, sw |-> <<>>, cap |-> c] :
        k \in {"mut_slice", "map_write_err", "unify_err"}, c \in 0..MaxCap}
    \cup
    {[kind |-> "map_read_err", inner |-> "slice", A |-> a, sa |-> s, sw |-> <<>>, cap |-> 0] :
        a \in DatasA, s \in Scripts}
    \cup
    {[kind |-> "map_write_err", inner |-> "dev", A |-> <<>>, sa |-> <<>>, sw |-> s, cap |-> 0] :
        s \in Scripts}
    \cup
    {[kind |-> k, inner |-> "dev", A |-> a, sa |-> p[1], sw |-> p[2], cap |-> 0] :
        k \in {"map_err", "unify_err"}, a \in DatasA, p \in ScriptPairs}

IoInner(c) ==
    CASE c.inner = "mut_slice" -> MutSlice(Mem0(c.cap))
      [] c.inner = "slice" -> Leaf("A", c.A, c.sa)
      [] c.inner = "dev" -> Dev(c.A, c.sa, c.sw)

IoBuild(c) ==
    CASE c.kind \in {"vec"} -> [kind |-> "vec", bytes |-> <<>>]
      [] c.kind \in {"empty", "sink", "null"} -> [kind |-> c.kind]
      [] c.kind = "mut_slice" -> IoInner(c)
      [] c.kind = "map_read_err" -> MapReadErrNew(IoInner(c))
      [] c.kind = "map_write_err" -> MapWriteErrNew(IoInner(c))
      [] c.kind = "map_err" -> MapErrNew(IoInner(c))
      [] c.kind = "unify_err" -> UnifyErrNew(IoInner(c))

InitIo ==
    /\ cfg \in IoConfigs
    /\ rd = IoBuild(cfg)
    /\ view = <<>>
    /\ out = <<>>
    /\ eof = FALSE
    /\ last = NoOp(rd)

\* The caller calls write_all(bytes).
DoWriteAll ==
    \E bytes \in WriteSeqs :
       LET w == WriteAll(rd, bytes)
       IN /\ IsWriter(rd)
          /\ Len(out) + Len(bytes) <= MaxWritten
          /\ Calls(w.r) <= MaxCalls
          /\ rd' = w.r
          /\ view' = <<>>
          /\ out' = IF w.ok THEN out \o bytes ELSE out
          /\ last' = [op |-> "write_all", pre |-> rd, arg |-> bytes, ok |-> w.ok,
                      err |-> w.err, bytes_past_end |-> w.bytes_past_end]
          /\ UNCHANGED <<cfg, eof>>

\* The caller calls flush.
DoFlush ==
    LET w == Flush(rd)
    IN /\ IsWriter(rd)
       /\ rd' = w.r
       /\ view' = <<>>
       /\ last' = [op |-> "flush", pre |-> rd, arg |-> <<>>, ok |-> w.ok,
                   err |-> w.err, bytes_past_end |-> w.bytes_past_end]
       /\ UNCHANGED <<cfg, out, eof>>

\* The caller reads the contents of a Vec<u8> to the end through a slice
\* reader made over it (&vec[..]).
DoReadBack ==
    /\ rd.kind = "vec"
    /\ LET x == read_to_end(Leaf("V", rd.bytes, <<>>), <<>>)
       IN last' = [op |-> "read_back", pre |-> rd, ok |-> x.ok, err |-> x.err,
                   dest |-> x.buf, total |-> x.total]
    /\ UNCHANGED <<cfg, rd, view, out, eof>>

NextIo ==
    \/ (IsReader(rd) /\ DoFillBuf)
    \/ (IsReader(rd) /\ DoConsume)
    \/ DoWriteAll
    \/ DoFlush
    \/ DoReadBack

SpecIo == InitIo /\ [][NextIo]_vars

\* ---------------------------------------------------------------- std bridges in use
\* The reverse bridges (StdBufRead, the std reader types) used through
\* fill_buf and consume, and the forward bridges (AsStd, AsStdReader) used
\* through io::Read::read and io::BufRead, AsStd through io::Write too. out
\* holds the bytes the caller consumed and the bytes read copied; the bytes
\* written through an AsStd are in the sunk of the reader-writer it wraps.
StdScripts ==
    {s \in SeqsUpTo({NoErr, Interrupted, "e1"}, MaxStdScript) :
        s = <<>> \/ s[Len(s)] # NoErr}

StdConfigs ==
    {[kind |-> k, A |-> a, sa |-> s] :
        k \in {"std_buf_read", "buf_reader"}, a \in DatasA, s \in StdScripts}
    \cup
    {[kind |-> "as_std", A |-> a, sa |-> p[1], sw |-> p[2]] :
        a \in DatasA, p \in ScriptPairs}
    \cup
    {[kind |-> "as_std_reader", base |-> c] : c \in Configs}

StdBuild(c) ==
    CASE c.kind = "std_buf_read" -> StdBufReadNew(StdReader(c.A, c.sa))
      [] c.kind = "buf_reader" -> StdReader(c.A, c.sa)
      [] c.kind = "as_std" -> AsStdNew(Dev(c.A, c.sa, c.sw))
      [] c.kind = "as_std_reader" -> AsStdReaderNew(Build(c.base))

InitStd ==
    /\ cfg \in StdConfigs
    /\ rd = StdBuild(cfg)
    /\ view = <<>>
    /\ out = <<>>
    /\ eof = FALSE
    /\ last = NoOp(rd)

\* The destinations given to read: d bytes holding 0.
Dests == {[i \in 1..d |-> 0] : d \in 0..MaxDest}

\* The caller calls io::Read::read(buf).
DoRead ==
    \E buf \in Dests :
       LET x == Read(rd, buf)
       IN /\ rd.kind \in {"as_std", "as_std_reader"}
          /\ rd' = x.r
          /\ view' = <<>>
          /\ out' = out \o Take_(x.buf, x.n)
          /\ eof' = (eof \/ (x.ok /\ x.n = 0 /\ buf # <<>>))
          /\ last' = [op |-> "read", pre |-> rd, arg |-> buf, ok |-> x.ok, err |-> x.err,
                      n |-> x.n, dest |-> x.buf, trace |-> x.trace]
          /\ UNCHANGED cfg

\* The reader a forward bridge wraps.
Bridged(r) == IF r.kind = "as_std" THEN r.unify.io ELSE r.io

\* The byte sequences given to io::Write::write and write_all: the bridge
\* does not look at the bytes, so the first bytes of 7, 8, ... stand for all.
StdWriteSeqs == {[i \in 1..k |-> 6 + i] : k \in 0..MaxWrite}

\* The caller calls io::Write::write(buf) on an AsStd.
DoStdWrite ==
    \E buf \in StdWriteSeqs :
       LET x == AsStdWrite(rd, buf)
       IN /\ rd.kind = "as_std"
          /\ Len(Bridged(rd).sunk) + Len(buf) <= MaxWrite
          /\ rd' = x.r
          /\ view' = <<>>
          /\ last' = [op |-> "write", pre |-> rd, arg |-> buf, ok |-> x.ok,
                      err |-> x.err, n |-> x.n]
          /\ UNCHANGED <<cfg, out, eof>>

\* The caller calls io::Write::write_all(buf) on an AsStd.
DoStdWriteAll ==
    \E buf \in StdWriteSeqs :
       LET w == WriteAll(rd, buf)
       IN /\ rd.kind = "as_std"
          /\ Len(Bridged(rd).sunk) + Len(buf) <= MaxWrite
          /\ rd' = w.r
          /\ view' = <<>>
          /\ last' = [op |-> "write_all", pre |-> rd, arg |-> buf, ok |-> w.ok,
                      err |-> w.err, n |-> 0]
          /\ UNCHANGED <<cfg, out, eof>>

\* The caller calls io::Write::flush on an AsStd.
DoStdFlush ==
    LET w == Flush(rd)
    IN /\ rd.kind = "as_std"
       /\ rd' = w.r
       /\ view' = <<>>
       /\ last' = [op |-> "flush", pre |-> rd, arg |-> <<>>, ok |-> w.ok,
                   err |-> w.err, n |-> 0]
       /\ UNCHANGED <<cfg, out, eof>>

NextStd ==
    \/ DoFillBuf
    \/ DoConsume
    \/ DoRead
    \/ DoStdWrite
    \/ DoStdWriteAll
    \/ DoStdFlush

SpecStd == InitStd /\ [][NextStd]_vars

\* ---------------------------------------------------------------- combinators
\* Compositions of the in-memory readers with Take, Chain, by_ref and the
\* error-mapping adapters, used through fill_buf and consume by a caller
\* that keeps to the protocol. out holds the bytes the caller consumed.
CombShapes ==
    {[kind |-> "slice", A |-> a, B |-> <<>>, limit |-> 0, sa |-> s, sb |-> <<>>] :
        a \in DatasA, s \in Scripts}
    \cup
    {[kind |-> "mut_slice", A |-> a, B |-> <<>>, limit |-> 0, sa |-> <<>>, sb |-> <<>>] :
        a \in DatasA}
    \cup
    {[kind |-> k, A |-> a, B |-> <<>>, limit |-> l, sa |-> s, sb |-> <<>>] :
        k \in {"take", "take_by_ref"}, a \in DatasA, s \in Scripts, l \in 0..MaxLimit}
    \cup
    {c \in {[kind |-> "chain", A |-> a, B |-> b, limit |-> 0, sa |-> s, sb |-> t] :
                a \in DatasA, b \in DatasB, s \in Scripts, t \in Scripts} :
        Len(c.sa) + Len(c.sb) <= MaxScript}
    \cup
    {[kind |-> k, A |-> a, B |-> b, limit |-> l, sa |-> <<>>, sb |-> <<>>] :
        k \in {"chain_take", "take_chain"}, a \in DatasA, b \in DatasB, l \in 0..MaxLimit}

\* Each composition as it is, under map_read_err, and the fallible
\* reader-writer under map_err and unify_err.
CombConfigs ==
    {[shape |-> c, wrap |-> w] : c \in CombShapes, w \in {"none", "map_read_err"}}
    \cup
    {[shape |-> [kind |-> "dev", A |-> a, B |-> <<>>, limit |-> 0, sa |-> s, sb |-> <<>>],
      wrap |-> w] : a \in DatasA, s \in Scripts, w \in {"map_err", "unify_err"}}

CombShape(c) ==
    CASE c.kind = "slice" -> Leaf("A", c.A, c.sa)
      [] c.kind = "mut_slice" -> MutSlice(c.A)
      [] c.kind = "take" -> TakeNew(Leaf("A", c.A, c.sa), c.limit)
      [] c.kind = "take_by_ref" -> TakeNew(by_ref(Leaf("A", c.A, c.sa)), c.limit)
      [] c.kind = "chain" -> ChainNew(Leaf("A", c.A, c.sa), Leaf("B", c.B, c.sb))
      [] c.kind = "chain_take" ->
            TakeNew(ChainNew(Leaf("A", c.A, <<>>), Leaf("B", c.B, <<>>)), c.limit)
      [] c.kind = "take_chain" ->
            ChainNew(TakeNew(Leaf("A", c.A, <<>>), c.limit), Leaf("B", c.B, <<>>))
      [] c.kind = "dev" -> Dev(c.A, c.sa, <<>>)

CombBuild(c) ==
    CASE c.wrap = "none" -> CombShape(c.shape)
      [] c.wrap = "map_read_err" -> MapReadErrNew(CombShape(c.shape))
      [] c.wrap = "map_err" -> MapErrNew(CombShape(c.shape))
      [] c.wrap = "unify_err" -> UnifyErrNew(CombShape(c.shape))

InitComb ==
    /\ cfg \in CombConfigs
    /\ rd = CombBuild(cfg)
    /\ view = <<>>
    /\ out = <<>>
    /\ eof = FALSE
    /\ last = NoOp(rd)

\* The Take made over a borrowed reader is dropped: the borrow ends and the
\* caller goes on with the reader it lent.
DoDrop ==
    /\ rd.kind = "take" /\ rd.reader.kind = "mut_ref"
    /\ rd' = rd.reader.target
    /\ view' = <<>>
    /\ last' = [NoOp(rd) EXCEPT !.op = "drop"]
    /\ UNCHANGED <<cfg, out, eof>>

NextComb == DoFillBuf \/ DoConsume \/ DoDrop

SpecComb == InitComb /\ [][NextComb]_vars

\* ---------------------------------------------------------------- any caller, debug build
\* A Take over a slice in a build with debug assertions (and the overflow
\* checks such a build has), used by a caller that may consume any amount
\* at any time. A panic ends the run. last carries, besides the call:
\*   returned  the length of the slice Take::fill_buf most recently returned
\*   literal   every consume(n) so far had n <= returned
\*   lawful    every consume(n) so far had n <= the part of the slice of the
\*             last fill_buf not yet consumed (view), that fill_buf having
\*             succeeded
\* Outcome of a call that may panic.
NoPanic(r) == [r |-> r, panic |-> "none"]
Panic(r, what) == [r |-> r, panic |-> what]

\* impl BufRead for &[u8]: consume, *self = &self[amount..] with any amount
SliceConsumeAny(r, amount) ==
    IF amount > Len(r.data) THEN Panic(r, "slice_index")
    ELSE NoPanic(SliceConsume(r, amount))

\* Take::consume with any amount: the debug assertion, the checked
\* subtraction, then the inner consume.
TakeConsumeAny(r, amount) ==
    IF amount > r.last_len THEN Panic(r, "assertion")
    ELSE IF amount > r.limit THEN Panic(r, "subtract_overflow")
    ELSE LET inner == SliceConsumeAny(r.reader, amount)
         IN IF inner.panic # "none"
            THEN Panic([r EXCEPT !.limit = r.limit - amount], inner.panic)
            ELSE NoPanic(TakeConsume(r, amount))

DebugConfigs ==
    {[kind |-> "take", A |-> a, B |-> <<>>, limit |-> l, sa |-> s, sb |-> <<>>] :
        a \in DatasA, s \in Scripts, l \in 0..MaxLimit}

InitDebug ==
    /\ cfg \in DebugConfigs
    /\ rd = Build(cfg)
    /\ view = <<>>
    /\ out = <<>>
    /\ eof = FALSE
    /\ last = [op |-> "new", pre |-> rd, n |-> 0, ok |-> TRUE, buf |-> <<>>, err |-> NoErr,
               panic |-> "none", returned |-> 0, literal |-> TRUE, lawful |-> TRUE]

\* The caller calls fill_buf.
DoFillBufAny ==
    LET f == FillBuf(rd)
    IN /\ last.panic = "none"
       /\ rd' = f.r
       /\ view' = f.buf
       /\ eof' = (eof \/ (f.ok /\ f.buf = <<>>))
       /\ last' = [last EXCEPT !.op = "fill_buf", !.pre = rd, !.n = 0, !.ok = f.ok,
                               !.buf = f.buf, !.err = f.err,
                               !.returned = IF f.ok THEN Len(f.buf) ELSE last.returned]
       /\ UNCHANGED <<cfg, out>>

\* The caller calls consume(n) with any n.
DoConsumeAny ==
    \E n \in 0..(MaxLen + 1) :
       LET x == TakeConsumeAny(rd, n)
       IN /\ last.panic = "none"
          /\ rd' = x.r
          /\ view' = IF n <= Len(view) THEN Drop_(view, n) ELSE <<>>
          /\ out' = IF x.panic = "none" THEN out \o Take_(rd.reader.data, n) ELSE out
          /\ last' = [last EXCEPT !.op = "consume", !.pre = rd, !.n = n, !.ok = TRUE,
                                  !.buf = <<>>, !.err = NoErr, !.panic = x.panic,
                                  !.literal = (last.literal /\ n <= last.returned),
                                  !.lawful = (last.lawful /\ n <= Len(view))]
          /\ UNCHANGED <<cfg, eof>>

NextDebug == DoFillBufAny \/ DoConsumeAny

SpecDebug == InitDebug /\ [][NextDebug]_vars

\* ---------------------------------------------------------------- the retry loop, turn by turn
\* fill_buf of the reverse bridges with each call of the wrapped fill_buf a
\* step of its own; what the wrapped reader answers is its own choice at
\* every call. last.pc is "loop" while a fill_buf is running; last.calls
\* counts the wrapped calls of this fill_buf and last.interrupts those that
\* gave Interrupted.
RetryConfigs == {[kind |-> k, A |-> a] : k \in {"std_buf_read", "buf_reader"}, a \in DatasA}

RetryBuild(c) ==
    IF c.kind = "std_buf_read" THEN StdBufReadNew(StdReader(c.A, <<>>))
    ELSE StdReader(c.A, <<>>)

InitRetry ==
    /\ cfg \in RetryConfigs
    /\ rd = RetryBuild(cfg)
    /\ view = <<>>
    /\ out = <<>>
    /\ eof = FALSE
    /\ last = [op |-> "new", pc |-> "idle", calls |-> 0, interrupts |-> 0, n |-> 0,
               ok |-> TRUE, err |-> NoErr, buf |-> <<>>]

\* The caller calls fill_buf: the loop is entered.
EnterFillBuf ==
    /\ last.pc = "idle"
    /\ last' = [op |-> "fill_buf", pc |-> "loop", calls |-> 0, interrupts |-> 0, n |-> 0,
                ok |-> TRUE, err |-> NoErr, buf |-> <<>>]
    /\ view' = <<>>
    /\ UNCHANGED <<cfg, rd, out, eof>>

\* One turn of the loop in which the wrapped fill_buf answers with outcome.
Turn(outcome) ==
    LET wrapped == IF rd.kind = "std_buf_read" THEN rd.io ELSE rd
        f  == StdIoFillBuf([wrapped EXCEPT !.script = <<outcome>>])
        t  == IF rd.kind = "std_buf_read" THEN StdBufReadTurn(rd, f) ELSE fill_buf_turn(f)
    IN /\ last.pc = "loop"
       /\ rd' = t.res.r
       /\ view' = IF t.done THEN t.res.buf ELSE <<>>
       /\ eof' = (eof \/ (t.done /\ t.res.ok /\ t.res.buf = <<>>))
       /\ last' = [last EXCEPT !.pc = IF t.done THEN "idle" ELSE "loop",
                               !.calls = last.calls + 1,
                               !.interrupts = last.interrupts + (IF outcome = Interrupted THEN 1 ELSE 0),
                               !.ok = t.res.ok, !.err = t.res.err, !.buf = t.res.buf]
       /\ UNCHANGED <<cfg, out>>

\* The wrapped reader signals Interrupted.
WrappedInterrupts == last.interrupts < MaxRetries /\ Turn(Interrupted)

\* The wrapped reader gives its buffer or another error.
WrappedAnswers == \E outcome \in {NoErr, "e1"} : Turn(outcome)

\* The caller consumes part of the slice fill_buf returned.
ConsumeReturned ==
    \E n \in 1..Len(view) :
       /\ last.pc = "idle" /\ last.ok
       /\ rd' = Consume(rd, n)
       /\ view' = Drop_(view, n)
       /\ out' = out \o Take_(view, n)
       /\ last' = [last EXCEPT !.op = "consume", !.n = n]
       /\ UNCHANGED <<cfg, eof>>

NextRetry == EnterFillBuf \/ WrappedInterrupts \/ WrappedAnswers \/ ConsumeReturned

\* The wrapped reader gives a result other than Interrupted in the end.
SpecRetry == InitRetry /\ [][NextRetry]_vars /\ WF_vars(WrappedAnswers)

\* ---------------------------------------------------------------- properties
IsPrefix(s, t) == Len(s) <= Len(t) /\ s = Take_(t, Len(s))

\* Number of bytes the leaf readers of r have not consumed yet.
RECURSIVE Unread(_)
Unread(r) ==
    CASE r.kind = "slice" -> Len(r.data)
      [] r.kind = "take"  -> Unread(r.reader)
      [] r.kind = "chain" -> Unread(r.left) + Unread(r.right)
      [] r.kind = "dev" -> Len(r.data)
      [] r.kind = "mut_slice" -> Len(r.mem) - r.pos
      [] r.kind = "mut_ref" -> Unread(r.target)
      [] r.kind = "map_read_err" -> Unread(r.reader)
      [] r.kind \in {"map_err", "unify_err"} -> Unread(r.io)

\* The bytes r has still to deliver when no fill_buf fails.
RECURSIVE Remaining(_)
Remaining(r) ==
    CASE r.kind = "slice" -> r.data
      [] r.kind = "take"  -> Take_(Remaining(r.reader), min(r.limit, Len(Remaining(r.reader))))
      [] r.kind = "chain" -> (IF r.is_right THEN <<>> ELSE Remaining(r.left)) \o Remaining(r.right)
      [] r.kind = "dev" -> r.data
      [] r.kind = "mut_slice" -> Drop_(r.mem, r.pos)
      [] r.kind = "mut_ref" -> Remaining(r.target)
      [] r.kind = "map_read_err" -> Remaining(r.reader)
      [] r.kind \in {"map_err", "unify_err"} -> Remaining(r.io)

\* No fill_buf of a leaf reader of r is scripted to fail or pass: r is in-memory.
RECURSIVE Infallible(_)
Infallible(r) ==
    CASE r.kind = "slice" -> r.script = <<>>
      [] r.kind = "take"  -> Infallible(r.reader)
      [] r.kind = "chain" -> Infallible(r.left) /\ Infallible(r.right)
      [] r.kind = "dev" -> r.script = <<>>
      [] r.kind = "mut_slice" -> TRUE
      [] r.kind = "mut_ref" -> Infallible(r.target)
      [] r.kind = "map_read_err" -> Infallible(r.reader)
      [] r.kind \in {"map_err", "unify_err"} -> Infallible(r.io)

\* C1: on chain(A, B) the bytes consumed are always a prefix of A ++ B, they
\* are exactly A ++ B once a fill_buf has returned empty, and every
\* successful fill_buf from the first empty one on returns empty.
C1_ChainYieldsConcat ==
    cfg.kind = "chain" =>
        /\ IsPrefix(out, cfg.A \o cfg.B)
        /\ eof => out = cfg.A \o cfg.B
        /\ (eof /\ last.op = "fill_buf" /\ last.ok) => last.buf = <<>>

\* C1 witness: a chain of two non-empty slices read to its end, the last
\* fill_buf being one made after the switch to the right reader.
C1_Witness ==
    /\ cfg.kind = "chain" /\ cfg.A # <<>> /\ cfg.B # <<>>
    /\ eof /\ out = cfg.A \o cfg.B
    /\ last.op = "fill_buf" /\ last.ok /\ last.buf = <<>> /\ last.pre.is_right

\* C2: on take(A, limit) the bytes consumed are always a prefix of the first
\* min(|A|, limit) bytes of A and are exactly those once a fill_buf has
\* returned empty; no returned slice is longer than the remaining budget,
\* and with the budget exhausted every successful fill_buf returns empty.
C2_TakeYieldsPrefix ==
    cfg.kind = "take" =>
        /\ IsPrefix(out, Take_(cfg.A, min(cfg.limit, Len(cfg.A))))
        /\ eof => out = Take_(cfg.A, min(cfg.limit, Len(cfg.A)))
        /\ (last.op = "fill_buf" /\ last.ok) =>
              /\ Len(last.buf) <= last.pre.limit
              /\ last.pre.limit = cfg.limit - Len(out)
              /\ last.pre.limit = 0 => last.buf = <<>>

\* C2 witness: a take that cut its slice short was read to the end of its
\* budget while the inner slice still holds bytes.
C2_Witness ==
    /\ cfg.kind = "take" /\ cfg.limit >= 1 /\ Len(cfg.A) > cfg.limit
    /\ eof /\ out = Take_(cfg.A, cfg.limit)
    /\ last.op = "fill_buf" /\ last.ok /\ last.buf = <<>> /\ rd.limit = 0
    /\ rd.reader.data # <<>>

\* C3 (as claimed): with the budget at 0, fill_buf on the Take returns an
\* empty slice and does not invoke the inner reader's fill_buf.
C3_ZeroBudgetSkipsInner ==
    (cfg.kind = "take" /\ last.op = "fill_buf" /\ last.pre.limit = 0) =>
        /\ last.ok /\ last.buf = <<>>
        /\ last.trace = <<>>

\* C4 (as claimed): read_exact of n bytes on an in-memory reader that has at
\* least n bytes left returns Ok, fills the destination with the first n of
\* them and leaves the reader positioned right after them.
C4_ReadExactConsumesWhatItReturns ==
    (last.op = "read_exact" /\ Infallible(last.pre) /\ Len(Remaining(last.pre)) >= last.n) =>
        /\ last.tag = "Ok"
        /\ last.dest = Take_(Remaining(last.pre), last.n)
        /\ Remaining(rd) = Drop_(Remaining(last.pre), last.n)

\* C5 (as claimed): read_exact of n bytes on an in-memory reader that has
\* k < n bytes left fails with UnexpectedEnd carrying n and n - k.
C5_ShortReadIsUnexpectedEnd ==
    (last.op = "read_exact" /\ Infallible(last.pre) /\ Len(Remaining(last.pre)) < last.n) =>
        /\ last.tag = "UnexpectedEnd"
        /\ last.total_required = last.n
        /\ last.available = last.n - Len(Remaining(last.pre))

\* C6 (as claimed): on take(A, 0) over an in-memory A, fill_buf returns an
\* empty slice and read_exact of 1 byte fails with UnexpectedEnd whose
\* fields are total_required = 1 and available = 0.
C6_TakeZeroShortRead ==
    (cfg.kind = "take" /\ cfg.limit = 0 /\ Infallible(last.pre)) =>
        /\ last.op = "fill_buf" => (last.ok /\ last.buf = <<>>)
        /\ (last.op = "read_exact" /\ last.n = 1) =>
              /\ last.tag = "UnexpectedEnd"
              /\ last.total_required = 1
              /\ last.available = 0

\* C7: read_exact of n >= 1 bytes on a Take whose budget is 0 never returns
\* Ok, whatever the inner reader still holds; over an in-memory inner reader
\* the error is UnexpectedEnd.
C7_ExhaustedTakeReadExactFails ==
    (cfg.kind = "take" /\ last.op = "read_exact" /\ last.pre.limit = 0 /\ last.n >= 1) =>
        /\ last.tag \in {"UnexpectedEnd", "ReadingFailed"}
        /\ ~last.ok
        /\ Infallible(last.pre) => last.tag = "UnexpectedEnd"

\* C7 witness: the budget of a take(A, limit >= 1) was consumed to 0 with
\* bytes left in A, and read_exact then failed.
C7_Witness ==
    /\ cfg.kind = "take" /\ cfg.limit >= 1 /\ Len(out) = cfg.limit
    /\ last.op = "read_exact" /\ last.n >= 1 /\ last.pre.limit = 0
    /\ last.pre.reader.data # <<>>
    /\ last.tag = "UnexpectedEnd"

\* C8: whatever read_exact of n bytes returns, the reader has consumed at
\* most n bytes during the call.
C8_ReadExactNeverOverConsumes ==
    last.op = "read_exact" =>
        /\ Unread(last.pre) - Unread(rd) <= last.n
        /\ Unread(last.pre) - Unread(rd) >= 0

\* C8 witness: a read_exact returned Ok on a reader that held more bytes
\* than the destination asked for.
C8_Witness ==
    /\ last.op = "read_exact" /\ last.n >= 1 /\ last.tag = "Ok"
    /\ Unread(last.pre) > last.n

\* C9: a failed fill_buf is the last call read_exact makes and its error e
\* comes back as ReadingFailed(e); ReadingFailed is returned only for a
\* failed fill_buf and UnexpectedEnd only for an empty successful one, and
\* nothing is consumed in a call that ends in ReadingFailed.
C9_ReadingFailedCarriesError ==
    last.op = "read_exact" =>
        /\ \A i \in 1..Len(last.log) :
              ~last.log[i].ok =>
                  /\ i = Len(last.log)
                  /\ last.tag = "ReadingFailed"
                  /\ last.err = last.log[i].err
                  /\ last.err \in Errs
                  /\ Unread(rd) = Unread(last.pre)
        /\ last.tag = "ReadingFailed" =>
              (last.log # <<>> /\ ~last.log[Len(last.log)].ok)
        /\ last.tag = "UnexpectedEnd" =>
              /\ last.log # <<>>
              /\ last.log[Len(last.log)].ok
              /\ last.log[Len(last.log)].len = 0
        /\ (cfg.kind = "slice" /\ last.pre.script # <<>> /\ Head(last.pre.script) # NoErr
              /\ last.n >= 1) =>
              (last.tag = "ReadingFailed" /\ last.err = Head(last.pre.script))

\* C9 witness: read_exact copied from one successful fill_buf and then hit a
\* failing one.
C9_Witness ==
    /\ last.op = "read_exact" /\ last.tag = "ReadingFailed"
    /\ Len(last.log) = 2 /\ last.log[1].ok /\ last.dest # <<>>
    /\ last.err = "e2"

\* C10: when the inner fill_buf fails with e, Take::fill_buf returns e and
\* the budget stays what it was; the budget is always the limit less the
\* bytes consumed, so a later successful fill_buf returns the inner slice
\* truncated to that budget.
C10_TakeErrorKeepsBudget ==
    (cfg.kind = "take" /\ last.op = "fill_buf") =>
        /\ (last.pre.reader.script # <<>> /\ Head(last.pre.reader.script) # NoErr) =>
              /\ ~last.ok
              /\ last.err = Head(last.pre.reader.script)
              /\ rd.limit = last.pre.limit
        /\ rd.limit = cfg.limit - Len(out)
        /\ last.ok =>
              /\ rd.limit = last.pre.limit
              /\ last.buf = Take_(last.pre.reader.data,
                                  min(last.pre.limit, Len(last.pre.reader.data)))

\* C10 witness: after a failed first fill_buf, a retry returned the inner
\* slice cut to the full budget.
C10_Witness ==
    /\ cfg.kind = "take" /\ cfg.sa # <<>> /\ Head(cfg.sa) # NoErr /\ out = <<>>
    /\ last.op = "fill_buf" /\ last.ok /\ last.buf # <<>>
    /\ Len(last.buf) = cfg.limit /\ Len(rd.reader.data) > cfg.limit

\* ---------------------------------------------------------------- C17..C19
\* C17: a read_to_end that returns Ok on a reader with the bytes s left has
\* appended exactly s after the prior contents of the destination, returns
\* |s|, and leaves the reader at its end: a fill_buf that succeeds then
\* returns empty.
C17_ReadToEndAppendsAll ==
    (last.op = "read_to_end" /\ last.ok) =>
        /\ last.dest = last.prior \o Remaining(last.pre)
        /\ last.total = Len(Remaining(last.pre))
        /\ Remaining(rd) = <<>>
        /\ FillBuf(rd).ok => FillBuf(rd).buf = <<>>

\* C17 witness: read_to_end crossed from the left to the right reader of a
\* chain and appended both after a non-empty destination.
C17_Witness ==
    /\ cfg.kind = "chain" /\ last.op = "read_to_end" /\ last.ok
    /\ last.prior # <<>> /\ ~last.pre.is_right
    /\ last.pre.left.data # <<>> /\ last.pre.right.data # <<>>
    /\ last.total = Len(last.pre.left.data) + Len(last.pre.right.data)

\* C18: a read_to_end whose fill_buf fails returns that error from that
\* call; the destination then holds its prior contents followed by exactly
\* the bytes consumed during the call, and the reader continues with the
\* byte after them.
C18_ReadToEndKeepsAppended ==
    (last.op = "read_to_end" /\ ~last.ok) =>
        LET k == Len(last.dest) - Len(last.prior)
            lg == last.log
        IN /\ k >= 0 /\ k = Unread(last.pre) - Unread(rd)
           /\ last.dest = last.prior \o Take_(Remaining(last.pre), k)
           /\ Remaining(rd) = Drop_(Remaining(last.pre), k)
           /\ last.total = k
           /\ lg # <<>> /\ ~lg[Len(lg)].ok /\ last.err = lg[Len(lg)].err
           /\ last.err \in Errs
           /\ \A i \in 1..(Len(lg) - 1) : lg[i].ok

\* C18 witness: read_to_end appended bytes and then hit a failing fill_buf.
C18_Witness ==
    /\ last.op = "read_to_end" /\ ~last.ok /\ last.err = "e1"
    /\ Len(last.dest) > Len(last.prior) /\ Len(last.log) >= 2

\* C19: read_byte returns the next unread byte and consumes exactly it, or
\* returns None at the end of the stream and consumes nothing, or returns
\* the error of its fill_buf and consumes nothing; the bytes taken so far
\* followed by the bytes still to come are always the original stream.
C19_ReadByteInOrder ==
    /\ last.op = "read_byte" =>
          /\ ~last.log[1].ok =>
                (~last.ok /\ last.err = last.log[1].err /\ Unread(rd) = Unread(last.pre))
          /\ last.log[1].ok =>
                /\ last.ok
                /\ Remaining(last.pre) = <<>> =>
                      (last.byte = <<>> /\ Unread(rd) = Unread(last.pre))
                /\ Remaining(last.pre) # <<>> =>
                      /\ last.byte = <<Head(Remaining(last.pre))>>
                      /\ Remaining(rd) = Tail(Remaining(last.pre))
                      /\ Unread(rd) = Unread(last.pre) - 1
    /\ out \o Remaining(rd) = Remaining(Build(cfg))

\* C19 witness: read_byte returned None after the bytes of both sides of a
\* chain had been taken.
C19_Witness ==
    /\ cfg.kind = "chain" /\ cfg.A # <<>> /\ cfg.B # <<>>
    /\ last.op = "read_byte" /\ last.ok /\ last.byte = <<>>
    /\ out = cfg.A \o cfg.B

\* ---------------------------------------------------------------- C11..C14, C20
\* The entity an error-mapping adapter wraps.
Inner(r) ==
    CASE r.kind = "map_read_err" -> r.reader
      [] r.kind = "map_write_err" -> r.writer
      [] r.kind \in {"map_err", "unify_err"} -> r.io

IsAdapter(r) == r.kind \in {"map_read_err", "map_write_err", "map_err", "unify_err"}

\* The last call made directly on the entity the adapter wrapped before it.
Direct ==
    CASE last.op = "fill_buf" -> FillBuf(Inner(last.pre))
      [] last.op = "write_all" -> WriteAll(Inner(last.pre), last.arg)
      [] last.op = "flush" -> Flush(Inner(last.pre))

\* C11: through MapReadErr, MapWriteErr and MapErr an inner call that fails
\* with e makes the outer call fail with f(e), and through UnifyErr with
\* e.into(); the closure is called once in a failing call and not at all in
\* a succeeding call or in consume.
C11_ErrorsAreMapped ==
    /\ (IsAdapter(last.pre) /\ last.op \in {"fill_buf", "write_all", "flush"}) =>
        /\ ~Direct.ok =>
              /\ ~last.ok
              /\ Direct.err \in Errs \cup {"BufferOverflow"}
              /\ last.pre.kind # "unify_err" =>
                    (last.err = MapperF(Direct.err) /\ rd.calls = last.pre.calls + 1)
              /\ last.pre.kind = "unify_err" => last.err = into(Direct.err)
              /\ last.op # "fill_buf" => last.bytes_past_end = Direct.bytes_past_end
        /\ Direct.ok =>
              /\ last.ok /\ last.err = NoErr
              /\ Calls(rd) = Calls(last.pre)
    /\ (IsAdapter(last.pre) /\ last.op = "consume") => Calls(rd) = Calls(last.pre)

\* C11 witness: a MapErr mapped a read error and then a write error with
\* the same closure.
C11_Witness ==
    /\ cfg.kind = "map_err" /\ rd.calls = 2
    /\ cfg.sa # <<>> /\ cfg.sw # <<>>
    /\ last.op = "flush" /\ ~last.ok /\ last.err = "f(e2)"

\* C12: every call made through an error-mapping adapter succeeds or fails
\* as the same call made directly on the wrapped entity, returns the same
\* slice and leaves the wrapped entity in the same state; consume reaches
\* the wrapped entity with the same amount.
C12_AdapterRefinesInner ==
    /\ (IsAdapter(last.pre) /\ last.op \in {"fill_buf", "write_all", "flush"}) =>
          /\ Inner(rd) = Direct.r
          /\ last.ok = Direct.ok
          /\ last.op = "fill_buf" => last.buf = Direct.buf
    /\ (IsAdapter(last.pre) /\ last.op = "consume") =>
          Inner(rd) = Consume(Inner(last.pre), last.n)

\* C12 witness: bytes were consumed through a MapReadErr after one of its
\* fill_buf calls had failed.
C12_Witness ==
    /\ cfg.kind = "map_read_err" /\ rd.calls >= 1
    /\ last.op = "consume" /\ last.n >= 1
    /\ Len(rd.reader.data) < Len(cfg.A)

\* Remaining capacity of a mutable slice.
Capacity(r) == Len(r.mem) - r.pos

\* C13: write_all of more bytes than the remaining capacity r of a &mut [u8]
\* fails with BufferOverflow whose bytes_past_end is len - r and leaves the
\* buffer and its capacity as they were; a write of at most r bytes succeeds.
C13_OverflowWritesNothing ==
    (last.pre.kind = "mut_slice" /\ last.op = "write_all") =>
        /\ Len(last.arg) > Capacity(last.pre) =>
              /\ ~last.ok
              /\ last.err = "BufferOverflow"
              /\ last.bytes_past_end = Len(last.arg) - Capacity(last.pre)
              /\ rd = last.pre
        /\ Len(last.arg) <= Capacity(last.pre) => last.ok

\* C13 witness: a write overflowed a buffer that earlier writes had partly
\* filled and that still had room.
C13_Witness ==
    /\ cfg.kind = "mut_slice" /\ last.op = "write_all" /\ ~last.ok
    /\ last.pre.pos >= 1 /\ Capacity(last.pre) >= 1
    /\ last.bytes_past_end = 1
    /\ out = <<7>>

\* C14: every write_all and flush on a Vec<u8> succeeds, the vector holds
\* the concatenation of the byte sequences written, and reading it to the
\* end through a slice reader yields that concatenation.
C14_VecRoundTrip ==
    cfg.kind = "vec" =>
        /\ rd.bytes = out
        /\ last.op \in {"write_all", "flush"} => last.ok
        /\ last.op = "read_back" =>
              (last.ok /\ last.dest = out /\ last.total = Len(out))

\* C14 witness: a vector written in several calls was read back.
C14_Witness ==
    /\ cfg.kind = "vec" /\ last.op = "read_back"
    /\ Len(out) = MaxWritten /\ last.dest = out

\* C20: fill_buf on Empty and Null always returns Ok(empty); write_all and
\* flush on Sink and Null always return Ok; what was written to Null is
\* never returned by its fill_buf.
C20_ZeroDataNeverFails ==
    /\ (cfg.kind \in {"empty", "null"} /\ last.op = "fill_buf") =>
          (last.ok /\ last.buf = <<>> /\ last.err = NoErr)
    /\ (cfg.kind \in {"sink", "null"} /\ last.op \in {"write_all", "flush"}) =>
          (last.ok /\ last.err = NoErr)
    /\ cfg.kind \in {"empty", "sink", "null"} => (rd = IoBuild(cfg) /\ view = <<>>)

\* C20 witness: fill_buf on Null returned empty after bytes had been
\* written to it.
C20_Witness ==
    /\ cfg.kind = "null" /\ out # <<>>
    /\ last.op = "fill_buf" /\ last.ok /\ last.buf = <<>>

\* ---------------------------------------------------------------- C15, C16
\* The std reader a reverse bridge calls.
Wrapped(r) == IF r.kind = "std_buf_read" THEN r.io ELSE r

\* The number of Interrupted outcomes at the head of a script.
RECURSIVE Interruptions(_)
Interruptions(s) ==
    IF s # <<>> /\ Head(s) = Interrupted THEN 1 + Interruptions(Tail(s)) ELSE 0

\* C15: fill_buf of StdBufRead and of the std reader types never returns an
\* Interrupted error: it calls the wrapped fill_buf once more after each
\* Interrupted result and returns the first other result as it is, an Ok
\* slice or any other error.
C15_InterruptedIsRetried ==
    (last.pre.kind \in {"std_buf_read", "buf_reader"} /\ last.op = "fill_buf") =>
        LET s == Wrapped(last.pre).script
            k == Interruptions(s)
        IN /\ last.err # Interrupted
           /\ Len(last.trace) = k + 1
           /\ Wrapped(rd).script = Drop_(s, k + 1)
           /\ Wrapped(rd).data = Wrapped(last.pre).data
           /\ (k = Len(s) \/ s[k + 1] = NoErr) =>
                 (last.ok /\ last.buf = Wrapped(last.pre).data)
           /\ (k < Len(s) /\ s[k + 1] # NoErr) =>
                 (~last.ok /\ last.err = s[k + 1])

\* C15 witness: StdBufRead called the wrapped fill_buf three times, got
\* Interrupted twice and returned the other error of the third call.
C15_Witness ==
    /\ cfg.kind = "std_buf_read" /\ last.op = "fill_buf"
    /\ Len(last.trace) = 3 /\ ~last.ok /\ last.err = "e1"

\* C16: read of AsStd and AsStdReader with a destination of d bytes makes
\* one inner fill_buf; on a slice of a bytes it copies its first min(d, a)
\* bytes to the head of the destination, consumes min(d, a) bytes and
\* returns min(d, a); on an error it returns the converted error and
\* consumes nothing.
C16_ReadCopiesMin ==
    (last.pre.kind \in {"as_std", "as_std_reader"} /\ last.op = "read") =>
        LET f == FillBuf(Bridged(last.pre))
            d == Len(last.arg)
            m == IF d <= Len(f.buf) THEN d ELSE Len(f.buf)
        IN /\ last.trace = f.trace
           /\ Bridged(last.pre).kind \in {"slice", "dev"} => Len(last.trace) = 1
           /\ last.ok = f.ok
           /\ Len(last.dest) = d
           /\ f.ok =>
                 /\ last.n = m /\ last.err = NoErr
                 /\ \A i \in 1..d : last.dest[i] = IF i <= m THEN f.buf[i] ELSE last.arg[i]
                 /\ Bridged(rd) = Consume(f.r, m)
                 /\ (f.buf = <<>> \/ d = 0) => (last.n = 0 /\ Bridged(rd) = f.r)
           /\ ~f.ok =>
                 /\ last.err = into(f.err) /\ last.n = 0
                 /\ last.dest = last.arg
                 /\ Bridged(rd) = f.r

\* C16 witness: AsStdReader copied one byte of a longer slice to a
\* destination of one byte after an earlier read had failed.
C16_Witness ==
    /\ cfg.kind = "as_std_reader" /\ last.op = "read" /\ last.ok
    /\ Len(last.arg) = 1 /\ last.n = 1 /\ last.dest = <<1>>
    /\ cfg.base.kind = "slice" /\ Len(cfg.base.A) = 2 /\ cfg.base.sa # <<>>
    /\ Bridged(rd).data = <<2>>

\* ---------------------------------------------------------------- C21..C30
\* C21: on the in-memory slice readers and on Take, Chain and the
\* error-mapping adapters over them, a fill_buf made right after a fill_buf
\* returns the same bytes and the bytes still to be read stay the same; after
\* a consume of less than the returned slice the next fill_buf starts with
\* the bytes of that slice not consumed.
C21_FillBufReadsNothing ==
    Infallible(last.pre) =>
        /\ last.op = "fill_buf" =>
              /\ last.ok
              /\ FillBuf(rd).ok /\ FillBuf(rd).buf = last.buf
              /\ Remaining(rd) = Remaining(last.pre)
              /\ Remaining(FillBuf(rd).r) = Remaining(last.pre)
              /\ IsPrefix(last.buf, Remaining(rd))
        /\ (last.op = "consume" /\ view # <<>>) =>
              /\ FillBuf(rd).ok /\ IsPrefix(view, FillBuf(rd).buf)
              /\ Remaining(rd) = Drop_(Remaining(last.pre), last.n)

\* C21 witness: part of a slice of the right side of a chain under
\* map_read_err was consumed and the rest is still to come.
C21_Witness ==
    /\ cfg.wrap = "map_read_err" /\ cfg.shape.kind = "chain"
    /\ cfg.shape.sa = <<>> /\ cfg.shape.sb = <<>>
    /\ last.op = "consume" /\ last.n >= 1 /\ view # <<>>
    /\ rd.reader.is_right

\* The Take of a composition, under map_read_err or as the left side of a chain.
RECURSIVE HasTake(_)
HasTake(r) ==
    CASE r.kind = "take" -> TRUE
      [] r.kind = "map_read_err" -> HasTake(r.reader)
      [] r.kind = "chain" -> HasTake(r.left)
      [] OTHER -> FALSE

RECURSIVE TakeOf(_)
TakeOf(r) ==
    CASE r.kind = "take" -> r
      [] r.kind = "map_read_err" -> TakeOf(r.reader)
      [] r.kind = "chain" -> TakeOf(r.left)

\* What C22 says of the budget of the Take after the last call.
BudgetOnlyFalls ==
    /\ last.panic = "none"
    /\ 0 <= rd.limit /\ rd.limit <= cfg.limit
    /\ rd.limit <= last.pre.limit
    /\ last.op = "fill_buf" => rd.limit = last.pre.limit
    /\ last.op = "consume" =>
          /\ rd.limit = last.pre.limit - last.n
          /\ Len(rd.reader.data) = Len(last.pre.reader.data) - last.n
          /\ rd.reader.data = Drop_(last.pre.reader.data, last.n)

\* C22 as stated: when every consume(n) had n at most the length of the slice
\* Take::fill_buf most recently returned, the budget never underflows, never
\* grows, is unchanged by fill_buf and lowered by n by consume(n), which
\* consumes n bytes of the inner reader.
C22_BudgetUnderLiteralCaller == last.literal => BudgetOnlyFalls

\* C22 amended: the same when every consume(n) had n at most the part of the
\* slice of the last fill_buf that earlier consumes had left.
C22_BudgetOnlyFalls == last.lawful => BudgetOnlyFalls

\* C22 witness: two consumes of one byte each within one slice of two bytes
\* took the budget from 3 to 1 after a failed fill_buf.
C22_Witness ==
    /\ last.lawful /\ last.op = "consume" /\ last.n = 1
    /\ last.returned = 2 /\ view = <<>>
    /\ cfg.limit = 3 /\ rd.limit = 1 /\ cfg.sa # <<>>

\* C23: in a debug build the Take holds the length of the slice fill_buf
\* last returned to the caller, and every consume(n) with n above that length
\* fails the assertion with the budget as it was.
C23_AssertCatchesOverConsume ==
    /\ (last.op = "fill_buf" /\ last.ok) => rd.last_len = Len(last.buf)
    /\ (last.op = "consume" /\ last.n > last.returned) =>
          (last.panic = "assertion" /\ rd.limit = last.pre.limit)

\* The Chain of a composition, under map_read_err or inside a Take.
RECURSIVE HasChain(_)
HasChain(r) ==
    CASE r.kind = "chain" -> TRUE
      [] r.kind = "map_read_err" -> HasChain(r.reader)
      [] r.kind = "take" -> HasChain(r.reader)
      [] OTHER -> FALSE

RECURSIVE ChainOf(_)
ChainOf(r) ==
    CASE r.kind = "chain" -> r
      [] r.kind = "map_read_err" -> ChainOf(r.reader)
      [] r.kind = "take" -> ChainOf(r.reader)

\* C24: the flag of a Chain starts false, turns true only in a fill_buf in
\* which the left reader returned an empty slice, and stays true; once it
\* is true the left reader is not called again; consume goes to the side
\* the flag names and leaves the other side alone, and after every fill_buf
\* the flag names the side that was asked last.
C24_SwitchIsOneWay ==
    /\ (HasChain(rd) /\ last.op = "new") => ~ChainOf(rd).is_right
    /\ (HasChain(last.pre) /\ last.op \in {"fill_buf", "consume"}) =>
          LET c == ChainOf(rd)
              p == ChainOf(last.pre)
          IN /\ p.is_right => (c.is_right /\ c.left = p.left)
             /\ (~p.is_right /\ c.is_right) =>
                   /\ last.op = "fill_buf"
                   /\ FillBuf(p.left).ok /\ FillBuf(p.left).buf = <<>>
             /\ last.op = "fill_buf" =>
                   /\ p.is_right => last.trace = <<"B">>
                   /\ c.is_right <=> (last.trace[Len(last.trace)] = "B")
             /\ last.op = "consume" =>
                   /\ c.is_right = p.is_right
                   /\ p.is_right =>
                         (c.right = Consume(p.right, last.n)
                          /\ Unread(c.right) = Unread(p.right) - last.n)
                   /\ ~p.is_right =>
                         (c.left = Consume(p.left, last.n) /\ c.right = p.right
                          /\ Unread(c.left) = Unread(p.left) - last.n)

\* C24 witness: bytes of the right reader were consumed while the left
\* reader, empty when it was asked, still has a failure to report.
C24_Witness ==
    /\ cfg.shape.kind = "chain" /\ cfg.wrap = "none"
    /\ rd.is_right /\ rd.left.script = <<"e1">>
    /\ last.op = "consume" /\ last.n >= 1 /\ last.pre.is_right

\* The error the caller sees for the error e of a leaf reader.
OuterErr(e) ==
    CASE cfg.wrap \in {"map_read_err", "map_err"} -> MapperF(e)
      [] cfg.wrap = "unify_err" -> into(e)
      [] OTHER -> e

\* C25: in Chain::fill_buf an error of the left reader is returned with the
\* flag still false and the right reader not called, and the next fill_buf
\* asks the left reader again; an error of the right reader in the call
\* that switched is returned with the flag true, and the next fill_buf asks
\* the right reader only.
C25_ChainErrorKeepsSide ==
    (HasChain(last.pre) /\ last.op = "fill_buf" /\ ~ChainOf(last.pre).is_right) =>
        LET c == ChainOf(rd)
            p == ChainOf(last.pre)
            f == FillBuf(p.left)
            g == FillBuf(p.right)
        IN /\ ~f.ok =>
                 /\ ~last.ok /\ last.err = OuterErr(f.err)
                 /\ ~c.is_right
                 /\ c.right = p.right /\ last.trace = <<"A">>
                 /\ FillBuf(rd).trace[1] = "A"
           /\ (f.ok /\ f.buf = <<>> /\ ~g.ok) =>
                 /\ ~last.ok /\ last.err = OuterErr(g.err)
                 /\ c.is_right
                 /\ last.trace = <<"A", "B">>
                 /\ FillBuf(rd).trace = <<"B">>

\* C25 witness: the right reader failed in the fill_buf that found the left
\* reader empty, after an earlier fill_buf had failed on the left.
C25_Witness ==
    /\ cfg.shape.kind = "chain" /\ cfg.wrap = "none"
    /\ cfg.shape.sa # <<>> /\ cfg.shape.sb # <<>> /\ cfg.shape.B # <<>>
    /\ last.op = "fill_buf" /\ ~last.ok /\ last.trace = <<"A", "B">>
    /\ rd.is_right /\ ~last.pre.is_right

\* C26: write_all of len bytes on a &mut [u8] with remaining capacity r
\* succeeds exactly when len <= r; a success stores the bytes right after
\* those before them, leaves every other byte alone and lowers the
\* capacity to r - len; the front of the buffer holds the bytes taken so
\* far in order; flush succeeds and changes nothing.
C26_WriteFitsOrFails ==
    /\ (last.pre.kind = "mut_slice" /\ last.op = "write_all") =>
          /\ last.ok <=> (Len(last.arg) <= Capacity(last.pre))
          /\ last.ok =>
                /\ rd.pos = last.pre.pos + Len(last.arg)
                /\ Capacity(rd) = Capacity(last.pre) - Len(last.arg)
                /\ Len(rd.mem) = Len(last.pre.mem)
                /\ \A i \in 1..Len(rd.mem) :
                      rd.mem[i] = IF last.pre.pos < i /\ i <= rd.pos
                                  THEN last.arg[i - last.pre.pos]
                                  ELSE last.pre.mem[i]
    /\ (last.pre.kind = "mut_slice" /\ last.op = "flush") => (last.ok /\ rd = last.pre)
    /\ cfg.kind = "mut_slice" => Take_(rd.mem, rd.pos) = out

\* C26 witness: a write filled exactly the capacity an earlier write had
\* left, and the buffer holds both in order.
C26_Witness ==
    /\ cfg.kind = "mut_slice" /\ last.op = "write_all" /\ last.ok
    /\ last.pre.pos >= 1 /\ Len(last.arg) >= 1
    /\ Capacity(rd) = 0 /\ rd.mem = out
    /\ \A i \in 1..Len(out) : out[i] \in {7, 8}

\* C27: a fill_buf of a reverse bridge that has returned made k + 1 calls of
\* the wrapped fill_buf, k of them answered Interrupted, and did not return
\* Interrupted; when the wrapped reader gives another result in the end, a
\* fill_buf that was entered returns.
C27_RetryReturns ==
    /\ [](/\ last.interrupts <= last.calls
          /\ (last.pc = "idle" /\ last.op = "fill_buf") =>
                /\ last.calls = last.interrupts + 1
                /\ last.err # Interrupted
          /\ last.pc = "loop" => last.calls = last.interrupts)
    /\ ((last.pc = "loop") ~> (last.pc = "idle"))

\* C27 witness: a fill_buf returned the buffer on its fourth wrapped call
\* after bytes of an earlier slice had been consumed.
C27_Witness ==
    /\ last.pc = "idle" /\ last.op = "fill_buf"
    /\ last.interrupts = 3 /\ last.calls = 4
    /\ last.ok /\ last.buf # <<>> /\ out # <<>>

\* The leaf readers of a composition that can fail.
RECURSIVE Leaves(_)
Leaves(r) ==
    CASE r.kind \in {"slice", "dev"} -> {r}
      [] r.kind = "take" -> Leaves(r.reader)
      [] r.kind = "mut_ref" -> Leaves(r.target)
      [] r.kind = "chain" -> Leaves(r.left) \cup Leaves(r.right)
      [] r.kind = "map_read_err" -> Leaves(r.reader)
      [] r.kind \in {"map_err", "unify_err"} -> Leaves(r.io)
      [] OTHER -> {}

\* The fill_buf of leaf l is scripted to fail at its next call.
FailsNext(l) == l.script # <<>> /\ Head(l.script) # NoErr

\* The number of calls of the fill_buf of the leaf called name in a trace.
Invocations(trace, name) == Cardinality({i \in 1..Len(trace) : trace[i] = name})

\* C28: in one outer fill_buf every leaf reader is asked at most once, a
\* composition without a Chain asks its leaf exactly once, and when a leaf
\* that was asked fails the outer call fails in that call, with the same
\* error through Take and Chain and the mapped one through the adapters.
C28_NoRetryNoSwallow ==
    (last.op = "fill_buf") =>
        /\ last.trace # <<>>
        /\ \A name \in {"A", "B", "D", "M"} : Invocations(last.trace, name) <= 1
        /\ ~HasChain(last.pre) => Len(last.trace) = 1
        /\ \A l \in Leaves(last.pre) :
              /\ Invocations(last.trace, l.name) = 1 =>
                    \E m \in Leaves(rd) :
                       /\ m.name = l.name
                       /\ m.script = (IF l.script = <<>> THEN <<>> ELSE Tail(l.script))
              /\ (Invocations(last.trace, l.name) = 1 /\ FailsNext(l)) =>
                    (~last.ok /\ last.err = OuterErr(Head(l.script)))

\* C28 witness: the right reader of a chain under map_read_err failed in
\* the call that had asked the left reader first.
C28_Witness ==
    /\ cfg.wrap = "map_read_err" /\ cfg.shape.kind = "chain"
    /\ last.op = "fill_buf" /\ last.trace = <<"A", "B">>
    /\ ~last.ok /\ last.err = "f(e2)"

\* C29: the budget a Take has spent equals the bytes its inner reader has
\* passed; a Take over a borrowed slice A leaves the slice at the byte after
\* the last one consumed through it, at offset min(|A|, limit) when it was
\* read to its end, and the slice goes on from there with no byte lost.
C29_TakeAdvancesInnerByBudget ==
    /\ HasTake(rd) =>
          LET t  == TakeOf(rd)
              t0 == TakeOf(CombBuild(cfg))
          IN cfg.shape.limit - t.limit = Unread(t0.reader) - Unread(t.reader)
    /\ (cfg.shape.kind = "take_by_ref" /\ cfg.wrap = "none") =>
          /\ rd.kind = "take" =>
                /\ rd.reader.target.data = Drop_(cfg.shape.A, cfg.shape.limit - rd.limit)
                /\ Len(out) = cfg.shape.limit - rd.limit
          /\ rd.kind = "slice" =>
                /\ rd.data = Drop_(cfg.shape.A, Len(out))
                /\ IsPrefix(out, cfg.shape.A)
          /\ (last.op = "drop" /\ eof) =>
                rd.data = Drop_(cfg.shape.A, min(cfg.shape.limit, Len(cfg.shape.A)))

\* C29 witness: a Take of one byte over a borrowed slice of two bytes was
\* read to its end and dropped, and the slice goes on at its second byte.
C29_Witness ==
    /\ cfg.shape.kind = "take_by_ref" /\ cfg.wrap = "none"
    /\ cfg.shape.limit = 1 /\ Len(cfg.shape.A) = 2
    /\ last.op = "drop" /\ eof
    /\ rd.kind = "slice" /\ rd.data = <<2>> /\ out = <<1>>

\* What chain(A, B).take(n) and A.take(n).chain(B) yield when read to the end.
Composed(c) ==
    IF c.kind = "chain_take"
    THEN Take_(c.A \o c.B, min(c.limit, Len(c.A) + Len(c.B)))
    ELSE Take_(c.A, min(c.limit, Len(c.A))) \o c.B

\* C30: over in-memory A and B, chain(A, B).take(n) yields the first
\* min(n, |A| + |B|) bytes of A ++ B and A.take(n).chain(B) yields the first
\* min(n, |A|) bytes of A and then all of B: the bytes read are always a
\* prefix of that, all of it once a fill_buf has returned the empty slice,
\* and every fill_buf from then on returns the empty slice without an error.
C30_TakeAndChainCompose ==
    cfg.shape.kind \in {"chain_take", "take_chain"} =>
        /\ IsPrefix(out, Composed(cfg.shape))
        /\ last.op = "fill_buf" => last.ok
        /\ eof => out \o view = Composed(cfg.shape)
        /\ (eof /\ last.op = "fill_buf") => last.buf = <<>>

\* C30 witness: chain(A, B).take(3) over two slices of two bytes was read to
\* its end, three bytes came out, and fill_buf returned the empty slice.
C30_Witness ==
    /\ cfg.shape.kind = "chain_take" /\ cfg.shape.limit = 3
    /\ Len(cfg.shape.A) = 2 /\ Len(cfg.shape.B) = 2
    /\ eof /\ last.op = "fill_buf" /\ last.ok /\ last.buf = <<>>
    /\ out = <<1, 2, 3>>

\* ---------------------------------------------------------------- C31
\* C31: on a &mut [u8] a successful write_all of k bytes leaves the slice
\* where consume(k) would: the same front, the same capacity, and a fill_buf
\* that returns the tail the slice had before the write, without the bytes
\* written; a consume(k) lowers the capacity by k, so that write_all then
\* takes k bytes less; every slice fill_buf returns is the part of the
\* array that was neither written nor consumed.
C31_OneFrontForReadAndWrite ==
    last.pre.kind = "mut_slice" =>
        /\ (last.op = "write_all" /\ last.ok) =>
              LET k == Len(last.arg)
                  c == MutSliceConsume(last.pre, k)
              IN /\ rd.pos = c.pos
                 /\ Capacity(rd) = Capacity(c)
                 /\ FillBuf(rd).buf = FillBuf(c).buf
                 /\ FillBuf(rd).buf = Drop_(FillBuf(last.pre).buf, k)
                 /\ FillBuf(rd).buf = Drop_(Mem0(cfg.cap), rd.pos)
        /\ last.op = "consume" =>
              /\ Capacity(rd) = Capacity(last.pre) - last.n
              /\ \A b \in WriteSeqs :
                    WriteAll(rd, b).ok <=> (Len(b) <= Capacity(last.pre) - last.n)
        /\ last.op = "fill_buf" =>
              /\ last.ok /\ rd = last.pre
              /\ last.buf = Drop_(Mem0(cfg.cap), rd.pos)
              /\ Len(last.buf) = Capacity(rd)

\* C31 witness: after a write of one byte into a buffer of two, fill_buf
\* returned the second byte of the array and not the byte written.
C31_Witness ==
    /\ cfg.kind = "mut_slice" /\ cfg.cap = 2
    /\ last.op = "fill_buf" /\ last.ok
    /\ out = <<7>> /\ rd.pos = 1 /\ rd.mem = <<7, 22>>
    /\ last.buf = <<22>>

====
